---- MODULE Spec2Model ----
(***************************************************************************)
(* Redaction engine of the enhanced PDF redaction server                   *)
(* (src/unnamed/part_001): the request handlers that drive                 *)
(* applyEnhancedTextRedaction, the content-stream scan, the stream         *)
(* rewriter and the overlay painter.                                       *)
(*                                                                         *)
(* Representation.                                                         *)
(*  - A content stream is the sequence of its lines (split('\n') and       *)
(*    join('\n') are inverse on that sequence).  A line is a record        *)
(*    [op, args, ws]: its operator, its numeric operands and whether the   *)
(*    raw line carries leading or trailing whitespace (indentation, a      *)
(*    trailing '\r').  String.trim() clears ws.                            *)
(*  - A stream object is [lines, hasLength, readable, Length]: hasLength   *)
(*    is hasKey('Length'), readable is FALSE when getUnencodedStream /     *)
(*    setUnencodedStream throw for it.                                     *)
(*  - A page is [width, height, Contents, draws]: Contents is the list of  *)
(*    its content streams (empty when the page has no Contents entry),     *)
(*    draws the fills painted by page.drawRectangle, oldest first.         *)
(*  - A function that can throw returns [threw, ret, obj]: obj is the      *)
(*    object as the call left it, ret the returned number.                 *)
(*  - Numbers are integers; the inputs of Spec are chosen so that the      *)
(*    divisions of the coordinate mapping are exact.  The containment      *)
(*    test is evaluated in tenths (0.5 * fontSize, 1.2 * fontSize).        *)
(*    SpecRoundTrip computes the mapping in rounded binary arithmetic      *)
(*    (MapBoxNumber), as JavaScript does, with a short significand.        *)
(*                                                                         *)
(* Specifications.                                                         *)
(*  - Spec: one request handled by one of the four handlers.               *)
(*  - SpecRedact: Spec for a request to POST /redact.                      *)
(*  - SpecTwo: two /redact requests handled concurrently.                  *)
(*  - SpecScan: removeTextContentInArea, one line per step, for the        *)
(*    streams of a page one after the other.                               *)
(*  - SpecArea: removeTextInArea of src/unnamed/part_003 (the same text    *)
(*    is in part_002), one line per step, then run again on its result.    *)
(*  - SpecRoundTrip, SpecContainment: the coordinate mapping and the       *)
(*    containment test applied to their arguments.                         *)
(*  - SpecDegenerate: SpecRedact for rectangles of zero or negative        *)
(*    width or height.                                                     *)
(*  - SpecRespond: POST /redact from the request to its response,          *)
(*    validation and outer catch included.                                 *)
(*  - SpecUI: the drawing page of the server's HTML (renderPage,           *)
(*    prevPage, nextPage and the mouse handlers of the canvas).            *)
(***************************************************************************)
EXTENDS Integers, Sequences, FiniteSets, TLC

\* ------------------------------------------------------------------ bounds
MaxPages == 2
MaxRects == 2
\* lines of the generated content streams
MaxLines == 3
\* bits of the significand of a Number in the specifications that compute in
\* rounded arithmetic (53 in the program)
Precision == 8
\* calls of renderPage in one session of the drawing page
MaxRenders == 3

\* ------------------------------------------------------------- line values
L(op, args) == [op |-> op, args |-> args, ws |-> FALSE]

Indent(line) == [line EXCEPT !.ws = TRUE]

\* String.prototype.trim() as used on every scanned line
Trim(line) == [line EXCEPT !.ws = FALSE]

\* the comment line pushed in place of a skipped text object
RemovalMarker == [op |-> "% TEXT OBJECT REMOVED BY REDACTION", args |-> <<>>, ws |-> FALSE]

Max(a, b) == IF a >= b THEN a ELSE b

\* number of bytes of one line: operator, operands, surrounding whitespace
LineBytes(line) == 2 + 4 * Len(line.args) + (IF line.ws THEN 2 ELSE 0)

RECURSIVE SumLineBytes(_)
SumLineBytes(lines) ==
    IF lines = <<>> THEN 0
    ELSE LineBytes(Head(lines)) + SumLineBytes(Tail(lines))

\* modifiedBytes.length: the lines joined by '\n', one byte per character
ByteLength(lines) ==
    IF lines = <<>> THEN 0 ELSE SumLineBytes(lines) + (Len(lines) - 1)

\* ------------------------------------------------------- containment, cm
\* isTextPositionInRedactedArea with the padding taken off the right edge
isTextPositionInRedactedArea_InsetRight(textX, textY, fontSize, redactX, redactY, redactWidth, redactHeight) ==
    LET padding10    == Max(fontSize * 5, 50)
        textHeight10 == fontSize * 12
    IN  /\ 10 * textX >= 10 * redactX - padding10
        /\ 10 * textX <= 10 * (redactX + redactWidth) - padding10
        /\ 10 * textY >= 10 * redactY - padding10
        /\ 10 * textY <= 10 * (redactY + redactHeight) + textHeight10 + padding10

\* isTextPositionInRedactedArea with the upper limit of textY exclusive
isTextPositionInRedactedArea_ExclusiveTop(textX, textY, fontSize, redactX, redactY, redactWidth, redactHeight) ==
    LET padding10    == Max(fontSize * 5, 50)
        textHeight10 == fontSize * 12
    IN  /\ 10 * textX >= 10 * redactX - padding10
        /\ 10 * textX <= 10 * (redactX + redactWidth) + padding10
        /\ 10 * textY >= 10 * redactY - padding10
        /\ 10 * textY < 10 * (redactY + redactHeight) + textHeight10 + padding10

\* isTextPositionInRedactedArea, all terms multiplied by 10
isTextPositionInRedactedArea(textX, textY, fontSize, redactX, redactY, redactWidth, redactHeight) ==
    LET padding10    == Max(fontSize * 5, 50)
        textHeight10 == fontSize * 12
    IN  /\ 10 * textX >= 10 * redactX - padding10
        /\ 10 * textX <= 10 * (redactX + redactWidth) + padding10
        /\ 10 * textY >= 10 * redactY - padding10
        /\ 10 * textY <= 10 * (redactY + redactHeight) + textHeight10 + padding10

\* multiplyMatrices with the two matrices taken in the other order
multiplyMatrices_Swapped(a, b) ==
    << b[1] * a[1] + b[3] * a[2],
       b[2] * a[1] + b[4] * a[2],
       b[1] * a[3] + b[3] * a[4],
       b[2] * a[3] + b[4] * a[4],
       b[1] * a[5] + b[3] * a[6] + b[5],
       b[2] * a[5] + b[4] * a[6] + b[6] >>

multiplyMatrices(a, b) ==
    << a[1] * b[1] + a[3] * b[2],
       a[2] * b[1] + a[4] * b[2],
       a[1] * b[3] + a[3] * b[4],
       a[2] * b[3] + a[4] * b[4],
       a[1] * b[5] + a[3] * b[6] + a[5],
       a[2] * b[5] + a[4] * b[6] + a[6] >>

\* ------------------------------------------------------- the stream scan
\* the local state of removeTextContentInArea before the first line
ScanInit ==
    [ currentMatrix |-> <<1, 0, 0, 1, 0, 0>>,
      textMode |-> FALSE,
      textObjectLines |-> <<>>,
      skipCurrentTextObject |-> FALSE,
      removedCount |-> 0,
      currentFontSize |-> 12,
      modifiedLines |-> <<>> ]

\* the positioning / showing branch of the loop body (textMode is TRUE)
ScanTextLine(st, line, x, y, width, height) ==
    LET s1 == [st EXCEPT !.textObjectLines = Append(@, line)]
        s2 == IF line.op = "Tf" /\ Len(line.args) = 1
              THEN [s1 EXCEPT !.currentFontSize = line.args[1]]
              ELSE s1
        hit(m) == isTextPositionInRedactedArea(m[5], m[6], s2.currentFontSize, x, y, width, height)
        mark(s, m) == [s EXCEPT !.currentMatrix = m,
                                !.skipCurrentTextObject = @ \/ hit(m)]
    IN  IF line.op = "Tm"
        THEN IF Len(line.args) = 6 THEN mark(s2, line.args) ELSE s2
        ELSE IF line.op \in {"Td", "TD"}
        THEN IF Len(line.args) = 2
             THEN mark(s2, [s2.currentMatrix EXCEPT ![5] = @ + line.args[1],
                                                    ![6] = @ + line.args[2]])
             ELSE s2
        ELSE IF line.op = "TL"
        THEN IF Len(line.args) = 1
             THEN mark(s2, [s2.currentMatrix EXCEPT ![6] = @ - line.args[1]])
             ELSE s2
        ELSE IF line.op \in {"Tj", "TJ", "'", "\""}
        THEN mark(s2, s2.currentMatrix)
        ELSE s2

\* one iteration of the for loop of removeTextContentInArea
ScanLine(st, raw, x, y, width, height) ==
    LET line == Trim(raw) IN
    IF ~st.textMode
    THEN [st EXCEPT !.currentMatrix =
                        IF line.op = "cm" /\ Len(line.args) = 6
                        THEN multiplyMatrices(@, line.args) ELSE @,
                    !.modifiedLines = Append(@, line)]
    ELSE IF line.op = "BT"
    THEN [st EXCEPT !.textMode = TRUE,
                    !.textObjectLines = <<line>>,
                    !.skipCurrentTextObject = FALSE]
    ELSE IF line.op = "ET"
    THEN IF ~st.skipCurrentTextObject
         THEN [st EXCEPT !.textMode = FALSE,
                         !.modifiedLines = @ \o st.textObjectLines \o <<line>>,
                         !.textObjectLines = <<>>,
                         !.skipCurrentTextObject = FALSE]
         ELSE [st EXCEPT !.textMode = FALSE,
                         !.removedCount = @ + 1,
                         !.modifiedLines = Append(@, RemovalMarker),
                         !.textObjectLines = <<>>,
                         !.skipCurrentTextObject = FALSE]
    ELSE ScanTextLine(st, line, x, y, width, height)

RECURSIVE Scan(_, _, _, _, _, _)
Scan(st, lines, x, y, width, height) ==
    IF lines = <<>> THEN st
    ELSE Scan(ScanLine(st, Head(lines), x, y, width, height), Tail(lines), x, y, width, height)

\* what removeTextContentInArea returns once the loop is over
ScanResult(st) ==
    [modifiedContent |-> st.modifiedLines, removedCount |-> st.removedCount]

\* the try block: split, trim, includes, match and parseFloat do not throw on the
\* decoded string
ScanTry(contentString, x, y, width, height) ==
    [threw |-> FALSE, st |-> Scan(ScanInit, contentString, x, y, width, height)]

\* catch (error) { return { modifiedContent: contentString, removedCount: 0 }; }
ScanCatch(t, contentString) ==
    IF t.threw THEN [modifiedContent |-> contentString, removedCount |-> 0]
    ELSE ScanResult(t.st)

removeTextContentInArea(contentString, x, y, width, height) ==
    ScanCatch(ScanTry(contentString, x, y, width, height), contentString)

\* ------------------------------------------------------ stream rewriter
\* RewriteStream setting the new content without setting Length
RewriteStream_StaleLength(streamObj, r) ==
    IF r.modifiedContent # streamObj.lines
    THEN [threw |-> FALSE, ret |-> r.removedCount,
          obj |-> [streamObj EXCEPT !.lines = r.modifiedContent]]
    ELSE [threw |-> FALSE, ret |-> 0, obj |-> streamObj]

\* RewriteStream returning 1 for every stream it rewrites
RewriteStream_CountsRewrite(streamObj, r) ==
    IF r.modifiedContent # streamObj.lines
    THEN [threw |-> FALSE, ret |-> 1,
          obj |-> [streamObj EXCEPT !.lines = r.modifiedContent,
                                    !.Length = ByteLength(r.modifiedContent)]]
    ELSE [threw |-> FALSE, ret |-> 0, obj |-> streamObj]

\* processAndModifyContentStream after the scan: rewrite the stream only if the
\* scan's output differs from the decoded content
RewriteStream(streamObj, r) ==
    IF r.modifiedContent # streamObj.lines
    THEN [threw |-> FALSE, ret |-> r.removedCount,
          obj |-> [streamObj EXCEPT !.lines = r.modifiedContent,
                                    !.Length = ByteLength(r.modifiedContent)]]
    ELSE [threw |-> FALSE, ret |-> 0, obj |-> streamObj]

\* the try block of processAndModifyContentStream
ProcessStreamBody(streamObj, x, y, width, height) ==
    IF ~streamObj.hasLength
    THEN [threw |-> FALSE, ret |-> 0, obj |-> streamObj]
    ELSE IF ~streamObj.readable
    THEN [threw |-> TRUE, ret |-> 0, obj |-> streamObj]
    ELSE RewriteStream(streamObj,
             removeTextContentInArea(streamObj.lines, x, y, width, height))

\* catch (error) { console.error(...); return 0; }
CatchReturnZero(b) ==
    IF b.threw THEN [threw |-> FALSE, ret |-> 0, obj |-> b.obj] ELSE b

\* processAndModifyContentStream without its try/catch
processAndModifyContentStream_NoCatch(streamObj, x, y, width, height) ==
    ProcessStreamBody(streamObj, x, y, width, height)

processAndModifyContentStream(streamObj, x, y, width, height) ==
    CatchReturnZero(ProcessStreamBody(streamObj, x, y, width, height))

\* the for loop over contentRefs; a call that throws ends it
RECURSIVE ContentStreamsLoop(_, _, _, _, _, _, _)
RECURSIVE ContentStreamsStep(_, _, _, _, _, _, _, _)
ContentStreamsStep(contents, k, removedObjects, p, x, y, width, height) ==
    IF p.threw
    THEN [threw |-> TRUE, ret |-> 0, obj |-> [contents EXCEPT ![k] = p.obj]]
    ELSE ContentStreamsLoop([contents EXCEPT ![k] = p.obj], k + 1,
                            removedObjects + p.ret, x, y, width, height)

ContentStreamsLoop(contents, k, removedObjects, x, y, width, height) ==
    IF k > Len(contents)
    THEN [threw |-> FALSE, ret |-> removedObjects, obj |-> contents]
    ELSE ContentStreamsStep(contents, k, removedObjects,
             processAndModifyContentStream(contents[k], x, y, width, height),
             x, y, width, height)

\* the page with the streams as the loop left them
WithContents(page, b) ==
    [threw |-> b.threw, ret |-> b.ret, obj |-> [page EXCEPT !.Contents = b.obj]]

\* removeTextFromContentStreams: a page without Contents has an empty list
removeTextFromContentStreams(page, x, y, width, height) ==
    CatchReturnZero(WithContents(page,
        ContentStreamsLoop(page.Contents, 1, 0, x, y, width, height)))

\* placeholders of the source: nothing is removed, nothing is changed
removeXObjectsInArea(page, x, y, width, height) ==
    [threw |-> FALSE, ret |-> 0, obj |-> page]

removeAnnotationsInArea(page, x, y, width, height) ==
    [threw |-> FALSE, ret |-> 0, obj |-> page]

\* ------------------------------------------------------- overlay, mapper
\* page.drawRectangle({x, y, width, height, color, opacity})
drawRectangle(page, x, y, width, height, color, opacity) ==
    [page EXCEPT !.draws = Append(@, [x |-> x, y |-> y, width |-> width,
                                      height |-> height, color |-> color,
                                      opacity |-> opacity])]

\* pdfDoc.getPage(index) throws unless 0 <= index < page count
PageExists(pdfDoc, pageIndex) == pageIndex \in 0 .. (Len(pdfDoc.pages) - 1)

\* MapBox without the Y-flip: pdfY measured from the top edge
MapBox_NoFlip(redaction, page) ==
    [ pdfX      |-> (redaction.x * page.width) \div redaction.viewportWidth,
      pdfY      |-> (redaction.y * page.height) \div redaction.viewportHeight,
      pdfWidth  |-> (redaction.width * page.width) \div redaction.viewportWidth,
      pdfHeight |-> (redaction.height * page.height) \div redaction.viewportHeight ]

\* MapBox scaling the horizontal values by the vertical ratio
MapBox_MixedAxes(redaction, page) ==
    [ pdfX      |-> (redaction.x * page.width) \div redaction.viewportHeight,
      pdfY      |-> page.height
                    - ((redaction.y + redaction.height) * page.height)
                      \div redaction.viewportHeight,
      pdfWidth  |-> (redaction.width * page.width) \div redaction.viewportHeight,
      pdfHeight |-> (redaction.height * page.height) \div redaction.viewportHeight ]

\* the viewport-to-PDF mapping, written (v / viewport) * size in the source; the
\* inputs of Spec are such that every quotient is exact
MapBox(redaction, page) ==
    [ pdfX      |-> (redaction.x * page.width) \div redaction.viewportWidth,
      pdfY      |-> page.height
                    - ((redaction.y + redaction.height) * page.height)
                      \div redaction.viewportHeight,
      pdfWidth  |-> (redaction.width * page.width) \div redaction.viewportWidth,
      pdfHeight |-> (redaction.height * page.height) \div redaction.viewportHeight ]

\* RedactionSteps painting the overlay only when something was removed
RedactionSteps_OverlayOnlyIfRemoved(pdfDoc, n, b, t1) ==
    LET p4 == drawRectangle(t1.obj, b.pdfX, b.pdfY, b.pdfWidth, b.pdfHeight, "white", 1)
        p5 == drawRectangle(p4, b.pdfX, b.pdfY, b.pdfWidth, b.pdfHeight, "black", 1)
    IN  IF t1.threw
        THEN [threw |-> TRUE, ret |-> 0, obj |-> [pdfDoc EXCEPT !.pages[n] = t1.obj]]
        ELSE [threw |-> FALSE, ret |-> t1.ret,
              obj |-> [pdfDoc EXCEPT !.pages[n] = IF t1.ret > 0 THEN p5 ELSE t1.obj]]

\* RedactionSteps with steps 4 and 5 exchanged: black first, white on top
RedactionSteps_BlackFirst(pdfDoc, n, b, t1) ==
    LET p4 == drawRectangle(t1.obj, b.pdfX, b.pdfY, b.pdfWidth, b.pdfHeight, "black", 1)
        p5 == drawRectangle(p4, b.pdfX, b.pdfY, b.pdfWidth, b.pdfHeight, "white", 1)
    IN  IF t1.threw
        THEN [threw |-> TRUE, ret |-> 0, obj |-> [pdfDoc EXCEPT !.pages[n] = t1.obj]]
        ELSE [threw |-> FALSE, ret |-> t1.ret,
              obj |-> [pdfDoc EXCEPT !.pages[n] = p5]]

\* RedactionSteps leaving out the black fill when the page already carries a
\* fill at the box
RedactionSteps_BlackOnlyOnce(pdfDoc, n, b, t1) ==
    LET t2 == removeXObjectsInArea(t1.obj, b.pdfX, b.pdfY, b.pdfWidth, b.pdfHeight)
        t3 == removeAnnotationsInArea(t2.obj, b.pdfX, b.pdfY, b.pdfWidth, b.pdfHeight)
        p4 == drawRectangle(t3.obj, b.pdfX, b.pdfY, b.pdfWidth, b.pdfHeight, "white", 1)
        p5 == IF \E d \in 1 .. Len(t3.obj.draws) :
                    /\ t3.obj.draws[d].x = b.pdfX /\ t3.obj.draws[d].y = b.pdfY
                    /\ t3.obj.draws[d].width = b.pdfWidth
                    /\ t3.obj.draws[d].height = b.pdfHeight
              THEN p4
              ELSE drawRectangle(p4, b.pdfX, b.pdfY, b.pdfWidth, b.pdfHeight, "black", 1)
    IN  IF t1.threw
        THEN [threw |-> TRUE, ret |-> 0, obj |-> [pdfDoc EXCEPT !.pages[n] = t1.obj]]
        ELSE IF t2.threw
        THEN [threw |-> TRUE, ret |-> 0, obj |-> [pdfDoc EXCEPT !.pages[n] = t2.obj]]
        ELSE IF t3.threw
        THEN [threw |-> TRUE, ret |-> 0, obj |-> [pdfDoc EXCEPT !.pages[n] = t3.obj]]
        ELSE [threw |-> FALSE, ret |-> t1.ret + t2.ret + t3.ret,
              obj |-> [pdfDoc EXCEPT !.pages[n] = p5]]

\* steps 2 to 5 of the try block, t1 being the result of step 1
RedactionSteps(pdfDoc, n, b, t1) ==
    LET t2 == removeXObjectsInArea(t1.obj, b.pdfX, b.pdfY, b.pdfWidth, b.pdfHeight)
        t3 == removeAnnotationsInArea(t2.obj, b.pdfX, b.pdfY, b.pdfWidth, b.pdfHeight)
        p4 == drawRectangle(t3.obj, b.pdfX, b.pdfY, b.pdfWidth, b.pdfHeight, "white", 1)
        p5 == drawRectangle(p4, b.pdfX, b.pdfY, b.pdfWidth, b.pdfHeight, "black", 1)
    IN  IF t1.threw
        THEN [threw |-> TRUE, ret |-> 0, obj |-> [pdfDoc EXCEPT !.pages[n] = t1.obj]]
        ELSE IF t2.threw
        THEN [threw |-> TRUE, ret |-> 0, obj |-> [pdfDoc EXCEPT !.pages[n] = t2.obj]]
        ELSE IF t3.threw
        THEN [threw |-> TRUE, ret |-> 0, obj |-> [pdfDoc EXCEPT !.pages[n] = t3.obj]]
        ELSE [threw |-> FALSE, ret |-> t1.ret + t2.ret + t3.ret,
              obj |-> [pdfDoc EXCEPT !.pages[n] = p5]]

\* the try block from step 1 on, b being the mapped box
RedactionFromBox(pdfDoc, n, b) ==
    RedactionSteps(pdfDoc, n, b,
        removeTextFromContentStreams(pdfDoc.pages[n],
            b.pdfX, b.pdfY, b.pdfWidth, b.pdfHeight))

\* RedactionTryBody with a validation that throws for a rectangle of zero or
\* negative width or height
RedactionTryBody_RejectsDegenerate(pdfDoc, redaction) ==
    IF ~PageExists(pdfDoc, redaction.pageIndex) \/ redaction.width <= 0 \/ redaction.height <= 0
    THEN [threw |-> TRUE, ret |-> 0, obj |-> pdfDoc]
    ELSE RedactionFromBox(pdfDoc, redaction.pageIndex + 1,
             MapBox(redaction, pdfDoc.pages[redaction.pageIndex + 1]))

\* the try block of applyEnhancedTextRedaction
RedactionTryBody(pdfDoc, redaction) ==
    IF ~PageExists(pdfDoc, redaction.pageIndex)
    THEN [threw |-> TRUE, ret |-> 0, obj |-> pdfDoc]
    ELSE RedactionFromBox(pdfDoc, redaction.pageIndex + 1,
             MapBox(redaction, pdfDoc.pages[redaction.pageIndex + 1]))

\* the mapping as the fallback writes it out again
FallbackMapBox(redaction, page) ==
    [ pdfX      |-> (redaction.x * page.width) \div redaction.viewportWidth,
      pdfY      |-> page.height
                    - ((redaction.y + redaction.height) * page.height)
                      \div redaction.viewportHeight,
      pdfWidth  |-> (redaction.width * page.width) \div redaction.viewportWidth,
      pdfHeight |-> (redaction.height * page.height) \div redaction.viewportHeight ]

\* the fallback's own draw, b being the mapped box
FallbackDraw(pdfDoc, n, b) ==
    [threw |-> FALSE, ret |-> 0,
     obj |-> [pdfDoc EXCEPT !.pages[n] =
                 drawRectangle(@, b.pdfX, b.pdfY, b.pdfWidth, b.pdfHeight, "black", 1)]]

\* RedactionFallback clamping the page index to the last page instead of throwing
RedactionFallback_Clamped(pdfDoc, redaction) ==
    LET n == IF PageExists(pdfDoc, redaction.pageIndex)
             THEN redaction.pageIndex + 1 ELSE Len(pdfDoc.pages)
    IN  FallbackDraw(pdfDoc, n, FallbackMapBox(redaction, pdfDoc.pages[n]))

\* the catch block of applyEnhancedTextRedaction: black fill only, return 0;
\* a throw of the fallback itself is rethrown
RedactionFallback(pdfDoc, redaction) ==
    IF ~PageExists(pdfDoc, redaction.pageIndex)
    THEN [threw |-> TRUE, ret |-> 0, obj |-> pdfDoc]
    ELSE FallbackDraw(pdfDoc, redaction.pageIndex + 1,
             FallbackMapBox(redaction, pdfDoc.pages[redaction.pageIndex + 1]))

\* try { ... } catch { fallback }
CatchFallback(t, redaction) ==
    IF t.threw THEN RedactionFallback(t.obj, redaction) ELSE t

applyEnhancedTextRedaction(pdfDoc, redaction) ==
    CatchFallback(RedactionTryBody(pdfDoc, redaction), redaction)

\* ------------------------------------------------- Number arithmetic
\* A Number is m * 2^e with 2^(Precision-1) <= |m| < 2^Precision, or zero; every
\* operation gives the Number nearest to the exact result, ties to even.
RECURSIVE Pow2(_)
Pow2(n) == IF n <= 0 THEN 1 ELSE 2 * Pow2(n - 1)

Abs(n) == IF n < 0 THEN -n ELSE n

Sign(n) == IF n < 0 THEN -1 ELSE 1

Min(a, b) == IF a <= b THEN a ELSE b

NumZero == [m |-> 0, e |-> 0]

\* (a / d) * 2^e with a / d brought into [2^(Precision-1), 2^Precision)
RECURSIVE Normalize(_, _, _)
Normalize(a, d, e) ==
    IF a < d * Pow2(Precision - 1) THEN Normalize(2 * a, d, e - 1)
    ELSE IF a >= d * Pow2(Precision) THEN Normalize(a, 2 * d, e + 1)
    ELSE [a |-> a, d |-> d, e |-> e]

\* round to nearest, ties to even; a carry out of the significand renormalises
RoundNormalized(sgn, t) ==
    LET q == t.a \div t.d
        r == t.a % t.d
        m == IF 2 * r > t.d \/ (2 * r = t.d /\ q % 2 = 1) THEN q + 1 ELSE q
    IN  IF m = Pow2(Precision)
        THEN [m |-> sgn * Pow2(Precision - 1), e |-> t.e + 1]
        ELSE [m |-> sgn * m, e |-> t.e]

\* the Number nearest to (n / d) * 2^e, d > 0
NumRound(n, d, e) ==
    IF n = 0 THEN NumZero ELSE RoundNormalized(Sign(n), Normalize(Abs(n), d, e))

NumOfInt(n) == NumRound(n, 1, 0)

\* a / b, b nonzero
NumDiv(a, b) == NumRound(a.m * Sign(b.m), Abs(b.m), a.e - b.e)

NumMul(a, b) == NumRound(a.m * b.m, 1, a.e + b.e)

NumAdd(a, b) ==
    IF a.m = 0 THEN b
    ELSE IF b.m = 0 THEN a
    ELSE NumRound(a.m * Pow2(a.e - Min(a.e, b.e)) + b.m * Pow2(b.e - Min(a.e, b.e)),
                  1, Min(a.e, b.e))

NumSub(a, b) == NumAdd(a, [b EXCEPT !.m = -b.m])

\* MapBoxNumber without the Y-flip: pdfY measured from the top edge
MapBoxNumber_NoFlip(redaction, page) ==
    [ pdfX      |-> NumMul(NumDiv(NumOfInt(redaction.x), NumOfInt(redaction.viewportWidth)),
                           NumOfInt(page.width)),
      pdfY      |-> NumMul(NumDiv(NumOfInt(redaction.y), NumOfInt(redaction.viewportHeight)),
                           NumOfInt(page.height)),
      pdfWidth  |-> NumMul(NumDiv(NumOfInt(redaction.width), NumOfInt(redaction.viewportWidth)),
                           NumOfInt(page.width)),
      pdfHeight |-> NumMul(NumDiv(NumOfInt(redaction.height), NumOfInt(redaction.viewportHeight)),
                           NumOfInt(page.height)) ]

\* the viewport-to-PDF mapping computed in Numbers, operation by operation as the
\* source writes it: (v / viewport) * size, height - (...)
MapBoxNumber(redaction, page) ==
    [ pdfX      |-> NumMul(NumDiv(NumOfInt(redaction.x), NumOfInt(redaction.viewportWidth)),
                           NumOfInt(page.width)),
      pdfY      |-> NumSub(NumOfInt(page.height),
                           NumMul(NumDiv(NumAdd(NumOfInt(redaction.y), NumOfInt(redaction.height)),
                                         NumOfInt(redaction.viewportHeight)),
                                  NumOfInt(page.height))),
      pdfWidth  |-> NumMul(NumDiv(NumOfInt(redaction.width), NumOfInt(redaction.viewportWidth)),
                           NumOfInt(page.width)),
      pdfHeight |-> NumMul(NumDiv(NumOfInt(redaction.height), NumOfInt(redaction.viewportHeight)),
                           NumOfInt(page.height)) ]

\* ------------------------------------------------------------- the inputs
\* BT /F1 12 Tf 100 740 Td (Secret) Tj ET, one operator per line
TextObjectLines ==
    << L("BT", <<>>), L("Tf", <<12>>), L("Td", <<100, 740>>), L("Tj", <<>>), L("ET", <<>>) >>

\* the same text object, indented, inside q ... cm ... Q
IndentedLines ==
    << L("q", <<>>), Indent(L("cm", <<1, 0, 0, 1, 0, 0>>)), L("BT", <<>>),
       Indent(L("Tf", <<12>>)), Indent(L("Td", <<100, 740>>)), Indent(L("Tj", <<>>)),
       L("ET", <<>>), L("Q", <<>>) >>

MkStream(lines, hasLength, readable) ==
    [ lines |-> lines, hasLength |-> hasLength, readable |-> readable,
      Length |-> IF hasLength THEN ByteLength(lines) ELSE 0 ]

PlainStream == MkStream(TextObjectLines, TRUE, TRUE)
IndentedStream == MkStream(IndentedLines, TRUE, TRUE)
NoLengthStream == MkStream(IndentedLines, FALSE, TRUE)
UnreadableStream == MkStream(IndentedLines, TRUE, FALSE)

\* the Contents of a page: one stream, or an array of streams
PageContentsSet ==
    { <<PlainStream>>,
      <<NoLengthStream, IndentedStream>>, <<UnreadableStream, IndentedStream>> }

Pages ==
    { [width |-> 600, height |-> 800, Contents |-> c, draws |-> <<>>] : c \in PageContentsSet }

Documents ==
    UNION { { [pages |-> f] : f \in [1 .. n -> Pages] } : n \in 1 .. MaxPages }

\* viewport rectangles: (100,50,80,20) at scale 1 maps to (100,730,80,20) and
\* covers the anchor (100,740); (300,400,150,200) at scale 2 maps to
\* (150,500,75,100) and does not
ViewportBoxes ==
    { [x |-> 100, y |-> 50, width |-> 80, height |-> 20,
       viewportWidth |-> 600, viewportHeight |-> 800],
      [x |-> 300, y |-> 400, width |-> 150, height |-> 200,
       viewportWidth |-> 1200, viewportHeight |-> 1600] }

Redactions ==
    { [pageIndex |-> p, x |-> b.x, y |-> b.y, width |-> b.width, height |-> b.height,
       viewportWidth |-> b.viewportWidth, viewportHeight |-> b.viewportHeight] :
         p \in 0 .. MaxPages, b \in ViewportBoxes }

RedactionLists == UNION { [1 .. n -> Redactions] : n \in 1 .. MaxRects }

Endpoints == {"/redact", "/redact-and-download", "/api/submit-redactions", "/api/redact-pdf"}

\* the handlers whose loop wraps each applyEnhancedTextRedaction call in try/catch
PerRectangleCatch(e) == e \in {"/redact", "/redact-and-download"}

NoDoc == [pages |-> <<>>]

NoResponse == [status |-> 0, success |-> FALSE, objectsRemoved |-> 0, doc |-> NoDoc]

\* -------------------------------------------------------------- the state
VARIABLES
    endpoint,             \* the route of the request
    pdfBytes,             \* the document the request bytes parse to
    redactions,           \* req.body.redactions
    pc,                   \* "load", "loop", "done"
    pdfDoc,               \* the in-memory document
    i,                    \* rectangles the loop has gone through
    totalRemovedObjects,
    res,                  \* the HTTP response, NoResponse until sent
    threw,                \* per rectangle gone through: did the call throw
    saves,                \* calls of pdfDoc.save so far
    probe,                \* the arguments and result of a function applied on its own
    scan,                 \* removeTextContentInArea gone through line by line
    reqs                  \* two requests being handled concurrently

handlerVars ==
    <<endpoint, pdfBytes, redactions, pc, pdfDoc, i, totalRemovedObjects, res, threw, saves>>

\* the variables of the specifications other than Spec
aux == <<probe, scan, reqs>>

vars == <<handlerVars, aux>>

NoProbe == [fn |-> "none"]
NoScan == [lines |-> <<>>, pos |-> 0]
NoReqs == <<>>

Init ==
    /\ endpoint \in Endpoints
    /\ pdfBytes \in Documents
    /\ redactions \in RedactionLists
    /\ pc = "load"
    /\ pdfDoc = NoDoc
    /\ i = 0
    /\ totalRemovedObjects = 0
    /\ res = NoResponse
    /\ threw = <<>>
    /\ saves = 0
    /\ probe = NoProbe
    /\ scan = NoScan
    /\ reqs = NoReqs

\* the status of a failed PDFDocument.load
LoadFailStatus(e) == IF PerRectangleCatch(e) THEN 400 ELSE 500

\* PDFDocument.load(pdfBytes) succeeds
LoadOk ==
    /\ pc = "load"
    /\ pdfDoc' = pdfBytes
    /\ pc' = "loop"
    /\ UNCHANGED <<endpoint, pdfBytes, redactions, i, totalRemovedObjects, res, threw, saves, aux>>

\* LoadFail going on to the loop with the document missing
LoadFail_Continue ==
    /\ pc = "load"
    /\ pc' = "loop"
    /\ UNCHANGED <<endpoint, pdfBytes, redactions, pdfDoc, i, totalRemovedObjects, res, threw,
                   saves, aux>>

\* PDFDocument.load(pdfBytes) throws: error response, nothing else happens
LoadFail ==
    /\ pc = "load"
    /\ res' = [NoResponse EXCEPT !.status = LoadFailStatus(endpoint)]
    /\ pc' = "done"
    /\ UNCHANGED <<endpoint, pdfBytes, redactions, pdfDoc, i, totalRemovedObjects, threw, saves, aux>>

\* MoreRedactions with the bound off by one: the last rectangle is left out
MoreRedactions_SkipLast == i < Len(redactions) - 1

\* the loop condition of the redaction loop
MoreRedactions == i < Len(redactions)

\* the rest of one loop iteration, r being what applyEnhancedTextRedaction did
LoopBody(r) ==
    /\ pdfDoc' = r.obj
    /\ threw' = Append(threw, r.threw)
    /\ IF ~r.threw
       THEN /\ totalRemovedObjects' = totalRemovedObjects + r.ret
            /\ i' = i + 1
            /\ UNCHANGED <<pc, res>>
       ELSE IF PerRectangleCatch(endpoint)
       THEN /\ i' = i + 1
            /\ UNCHANGED <<pc, res, totalRemovedObjects>>
       ELSE /\ res' = [NoResponse EXCEPT !.status = 500]
            /\ pc' = "done"
            /\ UNCHANGED <<i, totalRemovedObjects>>

\* ApplyRedaction with a pdfDoc.save inside the loop, once per rectangle
ApplyRedaction_SaveEach ==
    /\ pc = "loop"
    /\ MoreRedactions
    /\ LoopBody(applyEnhancedTextRedaction(pdfDoc, redactions[i + 1]))
    /\ saves' = saves + 1
    /\ UNCHANGED <<endpoint, pdfBytes, redactions, aux>>

\* one iteration of the redaction loop
ApplyRedaction ==
    /\ pc = "loop"
    /\ MoreRedactions
    /\ LoopBody(applyEnhancedTextRedaction(pdfDoc, redactions[i + 1]))
    /\ UNCHANGED <<endpoint, pdfBytes, redactions, saves, aux>>

\* objectsRemoved of the success response; /redact-and-download sends the bytes only
ReportedCount(e, n) == IF e = "/redact-and-download" THEN 0 ELSE n

\* pdfDoc.save succeeds: the success response carries the serialized document
SaveOk ==
    /\ pc = "loop"
    /\ ~MoreRedactions
    /\ res' = [status |-> 200, success |-> TRUE,
               objectsRemoved |-> ReportedCount(endpoint, totalRemovedObjects),
               doc |-> pdfDoc]
    /\ pc' = "done"
    /\ saves' = saves + 1
    /\ UNCHANGED <<endpoint, pdfBytes, redactions, pdfDoc, i, totalRemovedObjects, threw, aux>>

\* SaveFail answering with the bytes the request came with
SaveFail_ReturnsOriginal ==
    /\ pc = "loop"
    /\ ~MoreRedactions
    /\ res' = [NoResponse EXCEPT !.status = 500, !.doc = pdfBytes]
    /\ pc' = "done"
    /\ saves' = saves + 1
    /\ UNCHANGED <<endpoint, pdfBytes, redactions, pdfDoc, i, totalRemovedObjects, threw, aux>>

\* pdfDoc.save throws: error response without document
SaveFail ==
    /\ pc = "loop"
    /\ ~MoreRedactions
    /\ res' = [NoResponse EXCEPT !.status = 500]
    /\ pc' = "done"
    /\ saves' = saves + 1
    /\ UNCHANGED <<endpoint, pdfBytes, redactions, pdfDoc, i, totalRemovedObjects, threw, aux>>

Next == LoadOk \/ LoadFail \/ ApplyRedaction \/ SaveOk \/ SaveFail

Spec == Init /\ [][Next]_vars

\* one request to POST /redact
RedactInit == Init /\ endpoint = "/redact"

SpecRedact == RedactInit /\ [][Next]_vars

\* ------------------------------ requests with degenerate rectangles
\* viewport rectangles of zero or negative width or height, which the handler
\* takes from the request body as they are: (100,60,0,0) maps to the empty box
\* at the anchor (100,740); (180,50,-80,20) to (180,730,-80,20);
\* (100,70,80,-20) to (100,750,80,-20)
DegenerateBoxes ==
    { [x |-> 100, y |-> 60, width |-> 0, height |-> 0,
       viewportWidth |-> 600, viewportHeight |-> 800],
      [x |-> 180, y |-> 50, width |-> -80, height |-> 20,
       viewportWidth |-> 600, viewportHeight |-> 800],
      [x |-> 100, y |-> 70, width |-> 80, height |-> -20,
       viewportWidth |-> 600, viewportHeight |-> 800] }

\* on the first page, or on a page no document has
DegenerateRedactions ==
    { [pageIndex |-> p, x |-> b.x, y |-> b.y, width |-> b.width, height |-> b.height,
       viewportWidth |-> b.viewportWidth, viewportHeight |-> b.viewportHeight] :
         p \in {0, MaxPages}, b \in DegenerateBoxes }

DegenerateLists == UNION { [1 .. n -> DegenerateRedactions] : n \in 1 .. MaxRects }

\* a request to POST /redact whose rectangles are all degenerate
DegenerateInit ==
    /\ endpoint = "/redact"
    /\ pdfBytes \in Documents
    /\ redactions \in DegenerateLists
    /\ pc = "load"
    /\ pdfDoc = NoDoc
    /\ i = 0
    /\ totalRemovedObjects = 0
    /\ res = NoResponse
    /\ threw = <<>>
    /\ saves = 0
    /\ probe = NoProbe
    /\ scan = NoScan
    /\ reqs = NoReqs

SpecDegenerate == DegenerateInit /\ [][Next]_vars

\* ------------------------------------- the mapper applied on its own
\* the handler variables of a specification in which no request is handled
HandlerIdle ==
    /\ endpoint = "/redact"
    /\ pdfBytes = NoDoc
    /\ redactions = <<>>
    /\ pc = "idle"
    /\ pdfDoc = NoDoc
    /\ i = 0
    /\ totalRemovedObjects = 0
    /\ res = NoResponse
    /\ threw = <<>>
    /\ saves = 0

\* page sizes and the viewports the UI renders them into at scale 1, 1.5 and 2
RoundTripSizes ==
    { [width |-> w, height |-> h, viewportWidth |-> (w * k) \div 2,
       viewportHeight |-> (h * k) \div 2] :
         w \in {6}, h \in {8}, k \in {2, 3, 4} }

\* the rectangles within the bounds of a viewport
RectanglesWithin(sz) ==
    { [pageIndex |-> 0, x |-> x, y |-> y, width |-> w, height |-> h,
       viewportWidth |-> sz.viewportWidth, viewportHeight |-> sz.viewportHeight] :
         x \in 0 .. sz.viewportWidth - 1, y \in 0 .. sz.viewportHeight - 1,
         w \in 1 .. sz.viewportWidth, h \in 1 .. sz.viewportHeight }

NoBox == [pdfX |-> NumZero, pdfY |-> NumZero, pdfWidth |-> NumZero, pdfHeight |-> NumZero]

RoundTripInit ==
    /\ HandlerIdle
    /\ scan = NoScan
    /\ reqs = NoReqs
    /\ \E sz \in RoundTripSizes :
          \E r \in RectanglesWithin(sz) :
              /\ r.x + r.width <= sz.viewportWidth
              /\ r.y + r.height <= sz.viewportHeight
              /\ probe = [fn |-> "MapBox", redaction |-> r,
                          page |-> [width |-> sz.width, height |-> sz.height],
                          mapped |-> FALSE, box |-> NoBox]

\* the four mapping statements of applyEnhancedTextRedaction
MapRectangle ==
    /\ probe.fn = "MapBox"
    /\ ~probe.mapped
    /\ probe' = [probe EXCEPT !.mapped = TRUE,
                              !.box = MapBoxNumber(probe.redaction, probe.page)]
    /\ UNCHANGED <<handlerVars, scan, reqs>>

SpecRoundTrip == RoundTripInit /\ [][MapRectangle]_vars

\* --------------------------------- two /redact requests handled concurrently
\* Each request is handled by its own invocation of the handler; reqs[h] holds the
\* locals of invocation h.  An invocation runs until an await and the other may
\* run before it resumes; the steps below end at the awaits of the handler, of
\* applyEnhancedTextRedaction and of removeTextFromContentStreams.
Handlers == {1, 2}

\* one-page documents
TwoDocuments == { [pages |-> <<pg>>] : pg \in Pages }

\* one or two rectangles, on the page or on a page that does not exist
TwoRedactionLists ==
    UNION { [1 .. n -> { r \in Redactions : r.pageIndex \in {0, 1} /\ r.x = 100 }] :
              n \in 1 .. 2 }

\* StoreDoc writing to one variable that all invocations share
StoreDoc_ModuleLevel(rs, h, doc) ==
    [j \in DOMAIN rs |-> [rs[j] EXCEPT !.pdfDoc = doc]]

\* an assignment to, or a mutation of, the handler's local pdfDoc
StoreDoc(rs, h, doc) == [rs EXCEPT ![h].pdfDoc = doc]

\* invocation h has taken a step while the other was between its load and its
\* response
Overlapped(rs, h) ==
    [rs EXCEPT ![h].overlapped =
        @ \/ \E j \in Handlers \ {h} : rs[j].pc \in {"loop", "streams"}]

TwoInit ==
    /\ HandlerIdle
    /\ probe = NoProbe
    /\ scan = NoScan
    /\ reqs \in [Handlers ->
                   { [pdfBytes |-> d, redactions |-> rl, pc |-> "load", pdfDoc |-> NoDoc,
                      i |-> 0, totalRemovedObjects |-> 0, box |-> NoDoc, k |-> 0,
                      removedObjects |-> 0, res |-> NoResponse, overlapped |-> FALSE] :
                        d \in TwoDocuments, rl \in TwoRedactionLists }]

\* await PDFDocument.load(pdfBytes) resolves
TwoLoadOk(h) ==
    /\ reqs[h].pc = "load"
    /\ reqs' = Overlapped(StoreDoc([reqs EXCEPT ![h].pc = "loop"], h, reqs[h].pdfBytes), h)
    /\ UNCHANGED <<handlerVars, probe, scan>>

\* await PDFDocument.load(pdfBytes) rejects
TwoLoadFail(h) ==
    /\ reqs[h].pc = "load"
    /\ reqs' = Overlapped([reqs EXCEPT ![h].pc = "done",
                                       ![h].res = [NoResponse EXCEPT !.status = 400]], h)
    /\ UNCHANGED <<handlerVars, probe, scan>>

\* the call of applyEnhancedTextRedaction up to its first await: getPage, getSize,
\* the mapping; getPage throwing ends the iteration in the loop's catch
TwoBegin(h) ==
    /\ reqs[h].pc = "loop"
    /\ reqs[h].i < Len(reqs[h].redactions)
    /\ LET r == reqs[h].redactions[reqs[h].i + 1] IN
         reqs' = Overlapped(
             IF ~PageExists(reqs[h].pdfDoc, r.pageIndex)
             THEN [reqs EXCEPT ![h].i = @ + 1]
             ELSE [reqs EXCEPT ![h].pc = "streams",
                               ![h].box = MapBox(r, reqs[h].pdfDoc.pages[r.pageIndex + 1]),
                               ![h].k = 1,
                               ![h].removedObjects = 0], h)
    /\ UNCHANGED <<handlerVars, probe, scan>>

\* what awaiting processAndModifyContentStream for stream k of page n leaves, p being
\* its result
TwoStreamStore(rs, h, n, p) ==
    StoreDoc([rs EXCEPT ![h].k = @ + 1, ![h].removedObjects = @ + p.ret], h,
             [rs[h].pdfDoc EXCEPT !.pages[n].Contents[rs[h].k] = p.obj])

\* one iteration of the loop of removeTextFromContentStreams
TwoStream(h) ==
    /\ reqs[h].pc = "streams"
    /\ LET n == reqs[h].redactions[reqs[h].i + 1].pageIndex + 1 IN
         /\ reqs[h].k <= Len(reqs[h].pdfDoc.pages[n].Contents)
         /\ reqs' = Overlapped(TwoStreamStore(reqs, h, n,
                        processAndModifyContentStream(
                            reqs[h].pdfDoc.pages[n].Contents[reqs[h].k],
                            reqs[h].box.pdfX, reqs[h].box.pdfY,
                            reqs[h].box.pdfWidth, reqs[h].box.pdfHeight)), h)
    /\ UNCHANGED <<handlerVars, probe, scan>>

\* what the rest of the iteration leaves, t being the result of
\* applyEnhancedTextRedaction
TwoFinishStore(rs, h, t) ==
    StoreDoc([rs EXCEPT ![h].pc = "loop",
                        ![h].i = @ + 1,
                        ![h].totalRemovedObjects = IF t.threw THEN @ ELSE @ + t.ret],
             h, t.obj)

\* steps 2 to 5 of applyEnhancedTextRedaction and the rest of the loop iteration
TwoFinish(h) ==
    /\ reqs[h].pc = "streams"
    /\ LET r == reqs[h].redactions[reqs[h].i + 1]
           n == r.pageIndex + 1
       IN  /\ reqs[h].k > Len(reqs[h].pdfDoc.pages[n].Contents)
           /\ reqs' = Overlapped(TwoFinishStore(reqs, h,
                          CatchFallback(
                              RedactionSteps(reqs[h].pdfDoc, n, reqs[h].box,
                                  [threw |-> FALSE, ret |-> reqs[h].removedObjects,
                                   obj |-> reqs[h].pdfDoc.pages[n]]),
                              r)), h)
    /\ UNCHANGED <<handlerVars, probe, scan>>

\* await pdfDoc.save resolves: the success response
TwoSaveOk(h) ==
    /\ reqs[h].pc = "loop"
    /\ reqs[h].i = Len(reqs[h].redactions)
    /\ reqs' = Overlapped([reqs EXCEPT
                    ![h].pc = "done",
                    ![h].res = [status |-> 200, success |-> TRUE,
                                objectsRemoved |-> reqs[h].totalRemovedObjects,
                                doc |-> reqs[h].pdfDoc]], h)
    /\ UNCHANGED <<handlerVars, probe, scan>>

\* await pdfDoc.save rejects
TwoSaveFail(h) ==
    /\ reqs[h].pc = "loop"
    /\ reqs[h].i = Len(reqs[h].redactions)
    /\ reqs' = Overlapped([reqs EXCEPT ![h].pc = "done",
                                       ![h].res = [NoResponse EXCEPT !.status = 500]], h)
    /\ UNCHANGED <<handlerVars, probe, scan>>

TwoNext ==
    \E h \in Handlers :
        \/ TwoLoadOk(h)
        \/ TwoLoadFail(h)
        \/ TwoBegin(h)
        \/ TwoStream(h)
        \/ TwoFinish(h)
        \/ TwoSaveOk(h)
        \/ TwoSaveFail(h)

SpecTwo == TwoInit /\ [][TwoNext]_vars

\* ------------------------ removeTextContentInArea gone through line by line
\* the lines the generated streams are made of
ScanAlphabet ==
    { L("q", <<>>), L("cm", <<1, 0, 0, 1, 10, 10>>), L("cm", <<0, 1, -1, 0, 5, 0>>),
      L("BT", <<>>), L("Tf", <<24>>), L("Td", <<100, 740>>), Indent(L("Tj", <<>>)),
      L("ET", <<>>) }

\* the content streams scanned: the two streams of the documents and every
\* sequence of up to MaxLines lines
ScanStreams ==
    {TextObjectLines, IndentedLines}
        \cup UNION { [1 .. n -> ScanAlphabet] : n \in 1 .. MaxLines }

\* the PDF-space boxes the scan is called with
ScanBoxes ==
    { [x |-> 100, y |-> 730, width |-> 80, height |-> 20],
      [x |-> 150, y |-> 500, width |-> 75, height |-> 100] }

NoScanResult == [modifiedContent |-> <<>>, removedCount |-> 0]

\* the streams that follow the first one in the Contents array of the page
ScanRests == { <<>>, <<TextObjectLines>>, <<IndentedLines>> }

\* removeTextContentInArea entered for stream k with the locals of the previous
\* call still in place
ScanBegin_KeepState(prev, k) ==
    [prev EXCEPT !.k = k, !.lines = prev.contents[k], !.pos = 0,
                 !.returned = FALSE, !.result = NoScanResult]

\* removeTextContentInArea entered for stream k of the page: fresh locals
ScanBegin(prev, k) ==
    [prev EXCEPT !.k = k, !.lines = prev.contents[k], !.pos = 0, !.st = ScanInit,
                 !.returned = FALSE, !.result = NoScanResult]

ScanInitState ==
    /\ HandlerIdle
    /\ probe = NoProbe
    /\ reqs = NoReqs
    /\ \E ls \in ScanStreams, rest \in ScanRests, b \in ScanBoxes :
          scan = ScanBegin([contents |-> <<ls>> \o rest, k |-> 0, lines |-> <<>>,
                            box |-> b, pos |-> 0, st |-> ScanInit,
                            returned |-> FALSE, result |-> NoScanResult], 1)

\* ScanStep going on to the line after the next
ScanStep_SkipsLine ==
    /\ scan.pos < Len(scan.lines)
    /\ scan' = [scan EXCEPT !.pos = IF @ + 2 <= Len(scan.lines) THEN @ + 2 ELSE @ + 1,
                            !.st = ScanLine(scan.st, scan.lines[scan.pos + 1],
                                            scan.box.x, scan.box.y,
                                            scan.box.width, scan.box.height)]
    /\ UNCHANGED <<handlerVars, probe, reqs>>

\* one iteration of the for loop: line pos + 1
ScanStep ==
    /\ scan.pos < Len(scan.lines)
    /\ scan' = [scan EXCEPT !.pos = @ + 1,
                            !.st = ScanLine(scan.st, scan.lines[scan.pos + 1],
                                            scan.box.x, scan.box.y,
                                            scan.box.width, scan.box.height)]
    /\ UNCHANGED <<handlerVars, probe, reqs>>

\* the loop is over: join and return
ScanReturn ==
    /\ scan.pos = Len(scan.lines)
    /\ ~scan.returned
    /\ scan' = [scan EXCEPT !.returned = TRUE, !.result = ScanResult(scan.st)]
    /\ UNCHANGED <<handlerVars, probe, reqs>>

\* the next iteration of the loop over the streams of the page
ScanNextStream ==
    /\ scan.returned
    /\ scan.k < Len(scan.contents)
    /\ scan' = ScanBegin(scan, scan.k + 1)
    /\ UNCHANGED <<handlerVars, probe, reqs>>

ScanNext == ScanStep \/ ScanReturn \/ ScanNextStream

SpecScan == ScanInitState /\ [][ScanNext]_vars

\* ------------------------------ the containment test applied on its own
\* font sizes a Tf operand can give; the padding is 5 up to size 10
FontSizes == {0, 1, 8, 10, 11, 12, 16, 20, 24}

\* anchors around the edges of the target boxes
AnchorXs == {80, 88, 92, 94, 95, 96, 100, 140, 170, 174, 180, 185, 186, 188, 192, 200}

AnchorYs == {700, 718, 722, 723, 724, 725, 730, 740, 750, 760, 767, 768, 770, 771, 780, 785, 790, 800}

TargetBoxes ==
    { [x |-> 100, y |-> 730, width |-> 80, height |-> 20],
      [x |-> 95, y |-> 725, width |-> 0, height |-> 0] }

\* the containment test on the arguments of the probe, at font size f
ContainmentAt(pr, f) ==
    isTextPositionInRedactedArea(pr.textX, pr.textY, f,
        pr.box.x, pr.box.y, pr.box.width, pr.box.height)

ContainmentInit ==
    /\ HandlerIdle
    /\ scan = NoScan
    /\ reqs = NoReqs
    /\ \E tx \in AnchorXs, ty \in AnchorYs, b \in TargetBoxes, f \in FontSizes :
          probe = [fn |-> "isTextPositionInRedactedArea", textX |-> tx, textY |-> ty,
                   box |-> b, fontSize |-> f, tested |-> FALSE, inside |-> FALSE,
                   outsideBefore |-> FALSE]

\* the first call, at the font size the probe starts with
TestContainment ==
    /\ probe.fn = "isTextPositionInRedactedArea"
    /\ ~probe.tested
    /\ probe' = [probe EXCEPT !.tested = TRUE, !.inside = ContainmentAt(probe, probe.fontSize)]
    /\ UNCHANGED <<handlerVars, scan, reqs>>

\* one more call, same anchor and box, at a font size that is not smaller
TestAtLargerFontSize ==
    /\ probe.fn = "isTextPositionInRedactedArea"
    /\ probe.tested
    /\ \E f \in FontSizes :
          /\ f >= probe.fontSize
          /\ probe' = [probe EXCEPT !.fontSize = f,
                                    !.inside = ContainmentAt(probe, f),
                                    !.outsideBefore = @ \/ ~probe.inside]
    /\ UNCHANGED <<handlerVars, scan, reqs>>

ContainmentNext == TestContainment \/ TestAtLargerFontSize

SpecContainment == ContainmentInit /\ [][ContainmentNext]_vars

\* ------------------- removeTextInArea (src/unnamed/part_003, part_002)
\* the operator names found in a line by String.prototype.includes: a line
\* holding a whole text object, and a show-text line whose string holds 'BT'
Tokens(line) ==
    IF line.op = "BT 50 50 Td (A) Tj ET" THEN {"BT", "Td", "Tj", "ET"}
    ELSE IF line.op = "(DEBT) Tj" THEN {"BT", "Tj"}
    ELSE {line.op}

Includes(line, s) == s \in Tokens(line)

isPositionInRedactedArea(textX, textY, redactX, redactY, redactWidth, redactHeight) ==
    LET padding == 5
    IN  /\ textX >= redactX - padding
        /\ textX <= redactX + redactWidth + padding
        /\ textY >= redactY - padding
        /\ textY <= redactY + redactHeight + padding

\* the comment line pushed by removeTextInArea in place of a skipped text object
AreaMarker == [op |-> "% TEXT OBJECT REMOVED BY REDACTION", args |-> <<>>, ws |-> FALSE]

\* the local state of removeTextInArea before the first line
AreaInit ==
    [ currentMatrix |-> <<1, 0, 0, 1, 0, 0>>,
      textMode |-> FALSE,
      pendingTextObject |-> <<>>,
      skipCurrentTextObject |-> FALSE,
      modifiedLines |-> <<>> ]

\* the textMode branch with the flag following the last anchor tested only
AreaTextLine_LastAnchorWins(st, line, x, y, width, height) ==
    LET s1 == [st EXCEPT !.pendingTextObject = Append(@, line)]
        hit(m) == isPositionInRedactedArea(m[5], m[6], x, y, width, height)
        mark(m) == [s1 EXCEPT !.currentMatrix = m, !.skipCurrentTextObject = hit(m)]
    IN  IF Includes(line, "Tm")
        THEN IF Len(line.args) = 6 THEN mark(line.args) ELSE s1
        ELSE IF Includes(line, "Td") \/ Includes(line, "TD")
        THEN IF Len(line.args) = 2
             THEN mark([s1.currentMatrix EXCEPT ![5] = @ + line.args[1],
                                                ![6] = @ + line.args[2]])
             ELSE s1
        ELSE IF \E t \in {"Tj", "TJ", "'", "\""} : Includes(line, t)
        THEN mark(s1.currentMatrix)
        ELSE s1

\* the textMode branch of the loop body
AreaTextLine(st, line, x, y, width, height) ==
    LET s1 == [st EXCEPT !.pendingTextObject = Append(@, line)]
        hit(m) == isPositionInRedactedArea(m[5], m[6], x, y, width, height)
        mark(m) == [s1 EXCEPT !.currentMatrix = m,
                              !.skipCurrentTextObject = @ \/ hit(m)]
    IN  IF Includes(line, "Tm")
        THEN IF Len(line.args) = 6 THEN mark(line.args) ELSE s1
        ELSE IF Includes(line, "Td") \/ Includes(line, "TD")
        THEN IF Len(line.args) = 2
             THEN mark([s1.currentMatrix EXCEPT ![5] = @ + line.args[1],
                                                ![6] = @ + line.args[2]])
             ELSE s1
        ELSE IF \E t \in {"Tj", "TJ", "'", "\""} : Includes(line, t)
        THEN mark(s1.currentMatrix)
        ELSE s1

\* the loop body with the matrix set back to the identity by a BT line
AreaLine_ResetAtBT(st, raw, x, y, width, height) ==
    LET line == Trim(raw) IN
    IF Includes(line, "BT")
    THEN [st EXCEPT !.textMode = TRUE,
                    !.currentMatrix = <<1, 0, 0, 1, 0, 0>>,
                    !.pendingTextObject = <<line>>,
                    !.skipCurrentTextObject = FALSE]
    ELSE IF Includes(line, "ET")
    THEN IF ~st.skipCurrentTextObject
         THEN [st EXCEPT !.textMode = FALSE,
                         !.modifiedLines = @ \o st.pendingTextObject \o <<line>>,
                         !.pendingTextObject = <<>>,
                         !.skipCurrentTextObject = FALSE]
         ELSE [st EXCEPT !.textMode = FALSE,
                         !.modifiedLines = Append(@, AreaMarker),
                         !.pendingTextObject = <<>>,
                         !.skipCurrentTextObject = FALSE]
    ELSE IF st.textMode
    THEN AreaTextLine(st, line, x, y, width, height)
    ELSE [st EXCEPT !.modifiedLines = Append(@, line)]

\* one iteration of the for loop of removeTextInArea
AreaLine(st, raw, x, y, width, height) ==
    LET line == Trim(raw) IN
    IF Includes(line, "BT")
    THEN [st EXCEPT !.textMode = TRUE,
                    !.pendingTextObject = <<line>>,
                    !.skipCurrentTextObject = FALSE]
    ELSE IF Includes(line, "ET")
    THEN IF ~st.skipCurrentTextObject
         THEN [st EXCEPT !.textMode = FALSE,
                         !.modifiedLines = @ \o st.pendingTextObject \o <<line>>,
                         !.pendingTextObject = <<>>,
                         !.skipCurrentTextObject = FALSE]
         ELSE [st EXCEPT !.textMode = FALSE,
                         !.modifiedLines = Append(@, AreaMarker),
                         !.pendingTextObject = <<>>,
                         !.skipCurrentTextObject = FALSE]
    ELSE IF st.textMode
    THEN AreaTextLine(st, line, x, y, width, height)
    ELSE [st EXCEPT !.modifiedLines = Append(@, line)]

RECURSIVE AreaScan(_, _, _, _, _, _)
AreaScan(st, lines, x, y, width, height) ==
    IF lines = <<>> THEN st
    ELSE AreaScan(AreaLine(st, Head(lines), x, y, width, height), Tail(lines),
                  x, y, width, height)

removeTextInArea(contentString, x, y, width, height) ==
    AreaScan(AreaInit, contentString, x, y, width, height).modifiedLines

\* the lines the generated streams are made of
AreaAlphabet ==
    { L("q", <<>>), L("BT", <<>>), L("Td", <<50, 50>>), L("Tj", <<>>), L("ET", <<>>),
      L("BT 50 50 Td (A) Tj ET", <<>>), L("(DEBT) Tj", <<>>) }

\* two text objects, each moving by (50, 50)
TwoTextObjects ==
    << L("BT", <<>>), L("Td", <<50, 50>>), L("Tj", <<>>), L("ET", <<>>),
       L("BT", <<>>), L("Td", <<50, 50>>), L("Tj", <<>>), L("ET", <<>>) >>

AreaStreams ==
    {TextObjectLines, TwoTextObjects}
        \cup UNION { [1 .. n -> AreaAlphabet] : n \in 1 .. MaxLines }

AreaBoxes ==
    { [x |-> 45, y |-> 45, width |-> 10, height |-> 10],
      [x |-> 100, y |-> 730, width |-> 80, height |-> 20] }

AreaInitState ==
    /\ HandlerIdle
    /\ scan = NoScan
    /\ reqs = NoReqs
    /\ \E ls \in AreaStreams, b \in AreaBoxes :
          probe = [fn |-> "removeTextInArea", input |-> ls, lines |-> ls, box |-> b,
                   pos |-> 0, st |-> AreaInit, run |-> 1, returned |-> FALSE,
                   result |-> <<>>]

\* one iteration of the for loop: line pos + 1
AreaStep ==
    /\ probe.fn = "removeTextInArea"
    /\ probe.pos < Len(probe.lines)
    /\ probe' = [probe EXCEPT !.pos = @ + 1,
                              !.st = AreaLine(probe.st, probe.lines[probe.pos + 1],
                                              probe.box.x, probe.box.y,
                                              probe.box.width, probe.box.height)]
    /\ UNCHANGED <<handlerVars, scan, reqs>>

\* the loop is over: join and return
AreaReturn ==
    /\ probe.fn = "removeTextInArea"
    /\ probe.pos = Len(probe.lines)
    /\ ~probe.returned
    /\ probe' = [probe EXCEPT !.returned = TRUE, !.result = probe.st.modifiedLines]
    /\ UNCHANGED <<handlerVars, scan, reqs>>

\* removeTextInArea called once more, on what it returned, with the same box
AreaRunAgain ==
    /\ probe.fn = "removeTextInArea"
    /\ probe.returned
    /\ probe.run = 1
    /\ probe' = [probe EXCEPT !.lines = probe.result, !.pos = 0, !.st = AreaInit,
                              !.run = 2, !.returned = FALSE, !.result = <<>>]
    /\ UNCHANGED <<handlerVars, scan, reqs>>

AreaNext == AreaStep \/ AreaReturn \/ AreaRunAgain

SpecArea == AreaInitState /\ [][AreaNext]_vars

\* ------------------------------- the drawing page: renderPage and the mouse
\* probe holds the globals of the page script (currentPage, totalPages,
\* redactions) and the DOM as far as drawing goes: renders is the list of
\* renderPage calls with the page each was called for and how far it has come
\* ("getPage": awaiting pdfDoc.getPage, "render": canvas in the container,
\* awaiting page.render, "done": listeners attached), shown the call whose canvas
\* is in the container, controls the enabled state of the Previous / Next
\* buttons, drawing the call on whose canvas a mousedown is being followed.  A
\* recorded redaction keeps its pageIndex and, for the properties, canvasPage:
\* the page rendered on the canvas it was drawn on.
NoControls == [prev |-> FALSE, next |-> FALSE]

\* loadPDFFromBase64 has loaded a document and called renderPage(1)
UIInit ==
    /\ HandlerIdle
    /\ scan = NoScan
    /\ reqs = NoReqs
    /\ \E n \in 1 .. MaxPages :
          probe = [fn |-> "ui", totalPages |-> n, currentPage |-> 1,
                   renders |-> <<[pageNum |-> 1, stage |-> "getPage"]>>,
                   shown |-> 0, controls |-> NoControls, drawing |-> 0,
                   redactions |-> <<>>]

\* renderPage(pageNum) up to its first await
StartRender(ui, pageNum) ==
    [ui EXCEPT !.currentPage = pageNum,
               !.renders = Append(@, [pageNum |-> pageNum, stage |-> "getPage"])]

prevPage ==
    /\ probe.fn = "ui"
    /\ probe.controls.prev
    /\ Len(probe.renders) < MaxRenders
    /\ probe.currentPage > 1
    /\ probe' = StartRender(probe, probe.currentPage - 1)
    /\ UNCHANGED <<handlerVars, scan, reqs>>

nextPage ==
    /\ probe.fn = "ui"
    /\ probe.controls.next
    /\ Len(probe.renders) < MaxRenders
    /\ probe.currentPage < probe.totalPages
    /\ probe' = StartRender(probe, probe.currentPage + 1)
    /\ UNCHANGED <<handlerVars, scan, reqs>>

\* getPage has resolved for call r: the container is cleared, the controls and a
\* new canvas are put in, page.render is awaited
RenderCanvas(r) ==
    /\ probe.fn = "ui"
    /\ probe.renders[r].stage = "getPage"
    /\ probe' = [probe EXCEPT
          !.renders[r].stage = "render",
          !.shown = r,
          !.controls = IF probe.totalPages > 1
                       THEN [prev |-> probe.currentPage > 1,
                             next |-> probe.currentPage < probe.totalPages]
                       ELSE NoControls]
    /\ UNCHANGED <<handlerVars, scan, reqs>>

\* page.render has resolved for call r: setupRedactionDrawing on its canvas
RenderListeners(r) ==
    /\ probe.fn = "ui"
    /\ probe.renders[r].stage = "render"
    /\ probe' = [probe EXCEPT !.renders[r].stage = "done"]
    /\ UNCHANGED <<handlerVars, scan, reqs>>

\* mousedown on the canvas in the container, once it has its listeners
MouseDown ==
    /\ probe.fn = "ui"
    /\ probe.shown # 0
    /\ probe.renders[probe.shown].stage = "done"
    /\ probe.drawing = 0
    /\ Len(probe.redactions) < MaxRects
    /\ probe' = [probe EXCEPT !.drawing = probe.shown]
    /\ UNCHANGED <<handlerVars, scan, reqs>>

\* mouseup: the rectangle is recorded when it is larger than 10 x 10
MouseUp ==
    /\ probe.fn = "ui"
    /\ probe.drawing # 0
    /\ \E large \in BOOLEAN :
          probe' = [probe EXCEPT
              !.drawing = 0,
              !.redactions =
                  IF large
                  THEN Append(@, [pageIndex |-> probe.currentPage - 1,
                                  canvasPage |-> probe.renders[probe.drawing].pageNum])
                  ELSE @]
    /\ UNCHANGED <<handlerVars, scan, reqs>>

UINext ==
    \/ prevPage
    \/ nextPage
    \/ \E r \in 1 .. Len(probe.renders) : RenderCanvas(r)
    \/ \E r \in 1 .. Len(probe.renders) : RenderListeners(r)
    \/ MouseDown
    \/ MouseUp

SpecUI == UIInit /\ [][UINext]_vars

\* --------------------------- POST /redact from the request to the response
\* reqs holds one request and the handler's position in it.  The request is
\* described by what the handler tests: source is how the PDF is given (a base64
\* string, a contentBase64 that Buffer.from rejects, the name of an uploaded file,
\* the name of a missing file, neither), list the redactions field (missing, not
\* an array, or an array, each item a rectangle on an existing page, a rectangle
\* with a page index out of range, or null), long and header the two
\* tests on the bytes, loads and saves whether PDFDocument.load and pdfDoc.save
\* succeed.  sent counts the calls of res.json.
RedactionKinds == {"ok", "badPage", "null"}

RequestLists ==
    { [kind |-> k, items |-> <<>>] : k \in {"missing", "notArray"} }
        \cup { [kind |-> "array", items |-> l] :
                   l \in UNION { [1 .. n -> RedactionKinds] : n \in 0 .. MaxRects } }

RespondInit ==
    /\ HandlerIdle
    /\ probe = NoProbe
    /\ scan = NoScan
    /\ \E s \in {"base64", "notString", "file", "noFile", "none"},
          l \in RequestLists, long \in BOOLEAN, header \in BOOLEAN,
          ld \in BOOLEAN, sv \in BOOLEAN :
          reqs = [source |-> s, list |-> l, long |-> long, header |-> header,
                  loads |-> ld, saves |-> sv,
                  pc |-> "source", i |-> 0, sent |-> 0, headersSent |-> FALSE,
                  status |-> 0]

\* return res.status(status).json(...)
Respond(r, status) ==
    [r EXCEPT !.sent = @ + 1, !.headersSent = TRUE, !.status = status, !.pc = "done"]

\* the outer catch without a response
OuterCatch_Swallow(r) == [r EXCEPT !.pc = "done"]

\* catch (error) { if (!res.headersSent) res.status(500).json(...) }
OuterCatch(r) ==
    IF ~r.headersSent THEN Respond(r, 500) ELSE [r EXCEPT !.pc = "done"]

\* contentBase64 / filename
ReadSource ==
    /\ reqs.pc = "source"
    /\ reqs' = IF reqs.source = "notString" THEN Respond(reqs, 400)
               ELSE IF reqs.source = "noFile" THEN Respond(reqs, 404)
               ELSE IF reqs.source = "none" THEN Respond(reqs, 400)
               ELSE [reqs EXCEPT !.pc = "redactions"]
    /\ UNCHANGED <<handlerVars, probe, scan>>

\* the two tests on the redactions field
CheckRedactions ==
    /\ reqs.pc = "redactions"
    /\ reqs' = IF reqs.list.kind # "array" THEN Respond(reqs, 400)
               ELSE IF Len(reqs.list.items) = 0 THEN Respond(reqs, 400)
               ELSE [reqs EXCEPT !.pc = "bytes"]
    /\ UNCHANGED <<handlerVars, probe, scan>>

\* the length test and the header test
CheckBytes ==
    /\ reqs.pc = "bytes"
    /\ reqs' = IF ~reqs.long THEN Respond(reqs, 400)
               ELSE IF ~reqs.header THEN Respond(reqs, 400)
               ELSE [reqs EXCEPT !.pc = "load"]
    /\ UNCHANGED <<handlerVars, probe, scan>>

\* PDFDocument.load in its try / catch
LoadDocument ==
    /\ reqs.pc = "load"
    /\ reqs' = IF ~reqs.loads THEN Respond(reqs, 400)
               ELSE [reqs EXCEPT !.pc = "loop"]
    /\ UNCHANGED <<handlerVars, probe, scan>>

\* one iteration of the loop: reading redaction.pageIndex of a null element throws
\* outside the inner try; a throw of applyEnhancedTextRedaction is caught
LoopIteration ==
    /\ reqs.pc = "loop"
    /\ reqs.i < Len(reqs.list.items)
    /\ reqs' = IF reqs.list.items[reqs.i + 1] = "null" THEN OuterCatch(reqs)
               ELSE [reqs EXCEPT !.i = @ + 1]
    /\ UNCHANGED <<handlerVars, probe, scan>>

\* pdfDoc.save in its try / catch, then the success response
SaveAndRespond ==
    /\ reqs.pc = "loop"
    /\ reqs.i = Len(reqs.list.items)
    /\ reqs' = IF ~reqs.saves THEN Respond(reqs, 500) ELSE Respond(reqs, 200)
    /\ UNCHANGED <<handlerVars, probe, scan>>

RespondNext ==
    \/ ReadSource
    \/ CheckRedactions
    \/ CheckBytes
    \/ LoadDocument
    \/ LoopIteration
    \/ SaveAndRespond

SpecRespond == RespondInit /\ [][RespondNext]_vars

\* =================================================================== claims
\* the box of the coordinate-mapping formulas for a page of size w x h
FormulaBox(r, w, h) ==
    [ x      |-> (r.x * w) \div r.viewportWidth,
      y      |-> h - ((r.y + r.height) * h) \div r.viewportHeight,
      width  |-> (r.width * w) \div r.viewportWidth,
      height |-> (r.height * h) \div r.viewportHeight ]

\* an opaque fill of the given colour at the formula box of r on its page
FillOf(r, page, color) ==
    LET b == FormulaBox(r, page.width, page.height)
    IN  [x |-> b.x, y |-> b.y, width |-> b.width, height |-> b.height,
         color |-> color, opacity |-> 1]

\* doc has the page r names, and that page carries r's opaque black fill
HasBlackOverlay(doc, r) ==
    /\ PageExists(doc, r.pageIndex)
    /\ \E d \in 1 .. Len(doc.pages[r.pageIndex + 1].draws) :
          doc.pages[r.pageIndex + 1].draws[d]
              = FillOf(r, doc.pages[r.pageIndex + 1], "black")

\* the rectangles the loop has gone through
Processed == 1 .. Len(threw)

RECURSIVE CountBlack(_)
CountBlack(draws) ==
    IF draws = <<>> THEN 0
    ELSE (IF Head(draws).color = "black" THEN 1 ELSE 0) + CountBlack(Tail(draws))

RECURSIVE CountBlackPages(_)
CountBlackPages(pages) ==
    IF pages = <<>> THEN 0
    ELSE CountBlack(Head(pages).draws) + CountBlackPages(Tail(pages))

\* C1: every rectangle gone through whose pageIndex names an existing page made
\* applyEnhancedTextRedaction return, and its page carries the opaque black fill at
\* the mapped box, whatever number of text objects the redactor removed.
C1_OverlayAlwaysPainted ==
    \A k \in Processed :
        PageExists(pdfDoc, redactions[k].pageIndex)
            => ~threw[k] /\ HasBlackOverlay(pdfDoc, redactions[k])

\* a rectangle on an existing page has gone through with nothing removed
C1_Witness ==
    \E k \in Processed :
        /\ PageExists(pdfDoc, redactions[k].pageIndex)
        /\ totalRemovedObjects = 0
        /\ HasBlackOverlay(pdfDoc, redactions[k])

\* C2 as stated: after a successful load and save every rectangle of the request
\* has a black overlay in the returned document.
C2_EveryRectangleCovered ==
    res.success => \A k \in 1 .. Len(redactions) : HasBlackOverlay(res.doc, redactions[k])

\* C2 amended: after a successful load and save every rectangle whose pageIndex
\* names an existing page has its black overlay in the returned document, and the
\* document carries no other black fill (a rectangle naming no page has none).
C2_ExistingPagesCovered ==
    res.success =>
        /\ \A k \in 1 .. Len(redactions) :
              PageExists(res.doc, redactions[k].pageIndex)
                  => HasBlackOverlay(res.doc, redactions[k])
        /\ CountBlackPages(res.doc.pages)
              = Cardinality({k \in 1 .. Len(redactions) :
                                PageExists(res.doc, redactions[k].pageIndex)})

\* a successful response to a request with a rectangle on an existing page and a
\* rectangle whose page does not exist
C2_Witness ==
    /\ res.success
    /\ \E k \in 1 .. Len(redactions) : PageExists(res.doc, redactions[k].pageIndex)
    /\ \E k \in 1 .. Len(redactions) : ~PageExists(res.doc, redactions[k].pageIndex)

\* the page has a stream for which text excision throws
ExcisionThrows(page) ==
    \E s \in 1 .. Len(page.Contents) :
        page.Contents[s].hasLength /\ ~page.Contents[s].readable

\* C3: when text excision throws for a rectangle on an existing page, the opaque
\* black fill is still drawn on that page at the box of the mapping formulas.
C3_FallbackGuarantee ==
    \A k \in Processed :
        ( /\ PageExists(pdfDoc, redactions[k].pageIndex)
          /\ ExcisionThrows(pdfDoc.pages[redactions[k].pageIndex + 1]) )
            => HasBlackOverlay(pdfDoc, redactions[k])

\* a rectangle has gone through on a page with a stream whose excision throws
C3_Witness ==
    \E k \in Processed :
        /\ PageExists(pdfDoc, redactions[k].pageIndex)
        /\ ExcisionThrows(pdfDoc.pages[redactions[k].pageIndex + 1])
        /\ HasBlackOverlay(pdfDoc, redactions[k])

\* the document was loaded
Loaded == pdfDoc # NoDoc

\* C4 as stated: a failure while a rectangle is processed does not abort the call:
\* once the handler of a loaded document is done, every rectangle has been gone
\* through, the document has been serialized once, and a success response carries
\* the aggregate count.
C4_FailureDoesNotAbort ==
    (pc = "done" /\ Loaded) =>
        /\ Len(threw) = Len(redactions)
        /\ saves = 1
        /\ (res.success => res.objectsRemoved = ReportedCount(endpoint, totalRemovedObjects))

\* C5 as stated: applyEnhancedTextRedaction does not throw for a rectangle whose
\* pageIndex is not below the page count, and the other rectangles of the call are
\* still processed.
C5_InvalidIndexDoesNotThrow ==
    /\ \A k \in Processed :
          ~PageExists(pdfBytes, redactions[k].pageIndex) => ~threw[k]
    /\ (pc = "done" /\ Loaded) => Len(threw) = Len(redactions)

\* C6: a loop iteration for a rectangle with an invalid page index leaves the
\* in-memory document as it was: no stream content, no Length, no fill changes.
C6_InvalidIndexNoMutation ==
    [][ ( /\ pc = "loop"
          /\ MoreRedactions
          /\ ~PageExists(pdfDoc, redactions[i + 1].pageIndex) )
        => pdfDoc' = pdfDoc ]_vars

\* the first rectangle had an invalid page index, it has gone through, and the
\* document is still the one that was loaded
C6_Witness ==
    /\ Len(threw) = 1
    /\ ~PageExists(pdfBytes, redactions[1].pageIndex)
    /\ pdfDoc = pdfBytes

\* the fills of a page come in pairs: an opaque white fill directly followed by an
\* opaque black fill of the identical box
WhiteBlackPairs(draws) ==
    /\ Len(draws) % 2 = 0
    /\ \A d \in 1 .. Len(draws) :
          d % 2 = 1 =>
              /\ draws[d].color = "white"
              /\ draws[d].opacity = 1
              /\ draws[d + 1] = [draws[d] EXCEPT !.color = "black"]

\* C7: every overlay is two opaque fills of the identical box, white drawn
\* directly before black, so the last-drawn fill of every painted box is black.
C7_WhiteThenBlack ==
    \A n \in 1 .. Len(pdfDoc.pages) : WhiteBlackPairs(pdfDoc.pages[n].draws)

\* a page has been painted twice: four fills, the topmost black
C7_Witness ==
    \E n \in 1 .. Len(pdfDoc.pages) :
        /\ Len(pdfDoc.pages[n].draws) = 4
        /\ pdfDoc.pages[n].draws[4].color = "black"

RECURSIVE CountMarkerLines(_)
CountMarkerLines(lines) ==
    IF lines = <<>> THEN 0
    ELSE (IF Head(lines) = RemovalMarker THEN 1 ELSE 0) + CountMarkerLines(Tail(lines))

RECURSIVE CountMarkerStreams(_)
CountMarkerStreams(contents) ==
    IF contents = <<>> THEN 0
    ELSE CountMarkerLines(Head(contents).lines) + CountMarkerStreams(Tail(contents))

RECURSIVE CountMarkers(_)
CountMarkers(pages) ==
    IF pages = <<>> THEN 0
    ELSE CountMarkerStreams(Head(pages).Contents) + CountMarkers(Tail(pages))

\* the rectangle's mapped box, padded for font size 12, contains the anchor
\* (100, 740) of the text object of the input streams
CoversAnchor(r, page) ==
    LET b == FormulaBox(r, page.width, page.height)
    IN  isTextPositionInRedactedArea(100, 740, 12, b.x, b.y, b.width, b.height)

\* two rectangles on pages 0 and 1, each page holding the one text object, each
\* rectangle covering its anchor
TwoPagesOneObjectEach ==
    /\ Len(pdfBytes.pages) = 2
    /\ Len(redactions) = 2
    /\ \A k \in 1 .. 2 :
          /\ redactions[k].pageIndex = k - 1
          /\ pdfBytes.pages[k].Contents = <<PlainStream>>
          /\ CoversAnchor(redactions[k], pdfBytes.pages[k])

\* C8 as stated: the count returned by a call is the number of text objects
\* replaced by a removal marker, and two rectangles on different pages that each
\* match exactly one text object give 2.
C8_RemovedCountIsMatches ==
    (res.success /\ endpoint # "/redact-and-download") =>
        /\ res.objectsRemoved = CountMarkers(res.doc.pages)
        /\ TwoPagesOneObjectEach => res.objectsRemoved = 2

\* the lines of a stream that lie outside its text objects, markers left out
RECURSIVE OutsideText(_, _)
OutsideText(lines, inText) ==
    IF lines = <<>> THEN <<>>
    ELSE IF Head(lines).op = "BT" THEN OutsideText(Tail(lines), TRUE)
    ELSE IF Head(lines).op = "ET" THEN OutsideText(Tail(lines), FALSE)
    ELSE IF inText \/ Head(lines) = RemovalMarker THEN OutsideText(Tail(lines), inText)
    ELSE <<Head(lines)>> \o OutsideText(Tail(lines), inText)

\* no rectangle gone through on page n covers the anchor of its text objects
NoAnchorCovered(n) ==
    \A k \in Processed :
        redactions[k].pageIndex = n - 1 => ~CoversAnchor(redactions[k], pdfBytes.pages[n])

\* C9 as stated: in every stream the lines outside text objects are the original
\* ones, unchanged and in order, and so are all lines of a stream whose text
\* objects have no anchor inside a padded rectangle.
C9_PassThroughUnchanged ==
    Loaded =>
        \A n \in 1 .. Len(pdfDoc.pages) :
            \A s \in 1 .. Len(pdfDoc.pages[n].Contents) :
                /\ OutsideText(pdfDoc.pages[n].Contents[s].lines, FALSE)
                      = OutsideText(pdfBytes.pages[n].Contents[s].lines, FALSE)
                /\ NoAnchorCovered(n) =>
                      pdfDoc.pages[n].Contents[s].lines
                          = pdfBytes.pages[n].Contents[s].lines

\* a stream without Length, or one whose decoding or rewriting throws
Unprocessable(streamObj) == ~streamObj.hasLength \/ ~streamObj.readable

RECURSIVE TrimAll(_)
TrimAll(lines) ==
    IF lines = <<>> THEN <<>> ELSE <<Trim(Head(lines))>> \o TrimAll(Tail(lines))

\* the stream has been scanned and rewritten: trimmed lines, Length of the new bytes
Rewritten(now, orig) ==
    /\ now.lines = TrimAll(orig.lines)
    /\ now.Length = ByteLength(now.lines)

\* C10: a stream that lacks Length or whose decoding or rewriting throws stays as
\* it was and adds nothing to the count; for a rectangle on a page with such a
\* stream the other streams of the page are still scanned, the overlay is painted,
\* the call does not throw, and the handler goes on to the remaining rectangles.
C10_BadStreamSkipped ==
    Loaded =>
        /\ \A n \in 1 .. Len(pdfDoc.pages) :
              \A s \in 1 .. Len(pdfDoc.pages[n].Contents) :
                  Unprocessable(pdfBytes.pages[n].Contents[s])
                      => pdfDoc.pages[n].Contents[s] = pdfBytes.pages[n].Contents[s]
        /\ \A k \in Processed :
              LET n == redactions[k].pageIndex + 1 IN
              ( /\ PageExists(pdfDoc, redactions[k].pageIndex)
                /\ \E s \in 1 .. Len(pdfBytes.pages[n].Contents) :
                      Unprocessable(pdfBytes.pages[n].Contents[s]) )
              => /\ ~threw[k]
                 /\ HasBlackOverlay(pdfDoc, redactions[k])
                 /\ \A s \in 1 .. Len(pdfDoc.pages[n].Contents) :
                       ~Unprocessable(pdfBytes.pages[n].Contents[s])
                           => Rewritten(pdfDoc.pages[n].Contents[s],
                                        pdfBytes.pages[n].Contents[s])
                 /\ (k < Len(redactions) => (pc = "done" => k < Len(threw)))
        /\ totalRemovedObjects = CountMarkers(pdfDoc.pages)

\* the first of two rectangles went through on a page whose first stream cannot be
\* processed and whose second stream was rewritten; the second rectangle went
\* through as well
C10_Witness ==
    /\ Len(threw) = 2
    /\ PageExists(pdfDoc, redactions[1].pageIndex)
    /\ LET n == redactions[1].pageIndex + 1 IN
         /\ Len(pdfDoc.pages[n].Contents) = 2
         /\ Unprocessable(pdfDoc.pages[n].Contents[1])
         /\ pdfDoc.pages[n].Contents[1] = pdfBytes.pages[n].Contents[1]
         /\ pdfDoc.pages[n].Contents[2] # pdfBytes.pages[n].Contents[2]
         /\ HasBlackOverlay(pdfDoc, redactions[1])

\* C11: pdfDoc.save is called at most once in a call; when it has been called the
\* loop has gone through every rectangle and the call is over, so no save lies
\* between two rectangles and no rectangle follows the save; a call that loaded
\* its document and went through all its rectangles has saved exactly once (on
\* /redact and /redact-and-download that is every call that loaded its document).
C11_SavedOnceAfterLastRectangle ==
    /\ saves <= 1
    /\ saves = 1 => pc = "done" /\ i = Len(redactions) /\ Len(threw) = Len(redactions)
    /\ (pc = "done" /\ Loaded /\ i = Len(redactions)) => saves = 1
    /\ (pc = "done" /\ Loaded /\ PerRectangleCatch(endpoint)) => saves = 1

\* a /redact call of two rectangles has answered after its one save
C11_Witness ==
    /\ endpoint = "/redact"
    /\ Len(redactions) = 2
    /\ Len(threw) = 2
    /\ saves = 1
    /\ res.success

\* C12: while the document has not loaded no rectangle has been gone through and
\* nothing has been saved; a call that ended without its document loaded answered
\* with an error status, success false and no document.
C12_LoadFailureFailsCall ==
    ~Loaded =>
        /\ threw = <<>> /\ i = 0 /\ saves = 0
        /\ pc = "done" =>
              /\ res.status \in {400, 500}
              /\ ~res.success
              /\ res.doc = NoDoc

\* a /redact call has ended on a document that did not load
C12_Witness ==
    /\ endpoint = "/redact"
    /\ pc = "done"
    /\ ~Loaded
    /\ res.status = 400

\* C13: a call whose pdfDoc.save was called and that did not answer success
\* answered status 500 with no document; a response carries a document only when
\* it reports success.
C13_SaveFailureReturnsNoDocument ==
    /\ (pc = "done" /\ saves = 1 /\ ~res.success) =>
           /\ res.status = 500
           /\ res.doc = NoDoc
    /\ res.doc # NoDoc => res.success /\ res.status = 200

\* the save of a call that painted an overlay has failed
C13_Witness ==
    /\ pc = "done"
    /\ saves = 1
    /\ ~res.success
    /\ pdfDoc # pdfBytes

\* what one call of the rewriter did to a stream it can process: r is the scan's
\* result for the stream, out the rewriter's
RewriteAgrees(streamObj, r, out) ==
    /\ ~out.threw
    /\ r.modifiedContent = streamObj.lines => out.obj = streamObj
    /\ r.modifiedContent # streamObj.lines =>
          /\ out.obj.lines = r.modifiedContent
          /\ out.obj.Length = ByteLength(r.modifiedContent)

\* the rewriter called with the box b on every stream of page that it can
\* process
RewritesAgree(page, b) ==
    \A s \in 1 .. Len(page.Contents) :
        ~Unprocessable(page.Contents[s]) =>
            RewriteAgrees(page.Contents[s],
                removeTextContentInArea(page.Contents[s].lines,
                                        b.pdfX, b.pdfY, b.pdfWidth, b.pdfHeight),
                processAndModifyContentStream(page.Contents[s],
                                        b.pdfX, b.pdfY, b.pdfWidth, b.pdfHeight))

\* C14: a stream of the document differs from the stream it was loaded as only
\* if its content differs, and then its Length is the byte length of its content;
\* every stream that has a Length has the byte length of its content as Length;
\* and the rewriter, called for the next rectangle on the streams of its page as
\* the rectangles before it left them, leaves a stream as it is when the scan's
\* output equals the content and otherwise stores the output with its byte
\* length.
C14_LengthMatchesContent ==
    Loaded =>
        /\ \A n \in 1 .. Len(pdfDoc.pages) :
              \A s \in 1 .. Len(pdfDoc.pages[n].Contents) :
                  LET now  == pdfDoc.pages[n].Contents[s]
                      orig == pdfBytes.pages[n].Contents[s]
                  IN  /\ now # orig =>
                            now.lines # orig.lines /\ now.Length = ByteLength(now.lines)
                      /\ now.hasLength => now.Length = ByteLength(now.lines)
        /\ (pc = "loop" /\ MoreRedactions
                /\ PageExists(pdfDoc, redactions[i + 1].pageIndex)) =>
              RewritesAgree(pdfDoc.pages[redactions[i + 1].pageIndex + 1],
                            MapBox(redactions[i + 1],
                                   pdfDoc.pages[redactions[i + 1].pageIndex + 1]))

\* two rectangles went through on one page: its indented stream was rewritten to
\* a shorter content by the first and left alone by the second, and the page's
\* other stream was never changed
C14_Witness ==
    /\ Len(threw) = 2
    /\ redactions[1].pageIndex = redactions[2].pageIndex
    /\ PageExists(pdfDoc, redactions[1].pageIndex)
    /\ LET n == redactions[1].pageIndex + 1 IN
         /\ Len(pdfDoc.pages[n].Contents) = 2
         /\ pdfDoc.pages[n].Contents[1] = pdfBytes.pages[n].Contents[1]
         /\ pdfDoc.pages[n].Contents[2].Length < pdfBytes.pages[n].Contents[2].Length
         /\ pdfDoc.pages[n].Contents[2].Length
               = ByteLength(pdfDoc.pages[n].Contents[2].lines)

\* the rectangle and the page of the worked example
ExampleRedaction ==
    [pageIndex |-> 0, x |-> 100, y |-> 50, width |-> 80, height |-> 20,
     viewportWidth |-> 600, viewportHeight |-> 800]

ExamplePage == [width |-> 600, height |-> 800]

\* C15: for every rectangle of a request received and every page of its document
\* the mapper's box is the box of the four formulas, Y-flip included, and the
\* fallback's mapping gives the same box; the worked example maps to
\* (100, 730, 80, 20); and every fill painted for a rectangle gone through sits
\* at that box.
C15_MapperFollowsFormulas ==
    /\ pc = "load" =>
         \A k \in 1 .. Len(redactions) :
             \A n \in 1 .. Len(pdfBytes.pages) :
                 LET r == redactions[k]
                     page == pdfBytes.pages[n]
                     f == FormulaBox(r, page.width, page.height)
                 IN  /\ MapBox(r, page) = [pdfX |-> f.x, pdfY |-> f.y,
                                           pdfWidth |-> f.width, pdfHeight |-> f.height]
                     /\ FallbackMapBox(r, page) = MapBox(r, page)
    /\ MapBox(ExampleRedaction, ExamplePage)
          = [pdfX |-> 100, pdfY |-> 730, pdfWidth |-> 80, pdfHeight |-> 20]
    /\ FallbackMapBox(ExampleRedaction, ExamplePage)
          = [pdfX |-> 100, pdfY |-> 730, pdfWidth |-> 80, pdfHeight |-> 20]
    /\ Loaded =>
          \A n \in 1 .. Len(pdfDoc.pages) :
              \A d \in 1 .. Len(pdfDoc.pages[n].draws) :
                  \E k \in Processed :
                      /\ redactions[k].pageIndex + 1 = n
                      /\ pdfDoc.pages[n].draws[d]
                            \in { FillOf(redactions[k], pdfDoc.pages[n], c) :
                                      c \in {"white", "black"} }

\* the rectangle (300, 400, 150, 200) of a 1200 x 1600 viewport has gone through
\* on a 600 x 800 page: its fill sits at (150, 500, 75, 100)
C15_Witness ==
    \E k \in Processed :
        /\ redactions[k].x = 300
        /\ redactions[k].viewportWidth = 1200
        /\ PageExists(pdfDoc, redactions[k].pageIndex)
        /\ \E d \in 1 .. Len(pdfDoc.pages[redactions[k].pageIndex + 1].draws) :
              LET f == pdfDoc.pages[redactions[k].pageIndex + 1].draws[d]
              IN  f.x = 150 /\ f.y = 500 /\ f.width = 75 /\ f.height = 100

\* the inverse formulas: the viewport rectangle of a PDF-space box, computed in
\* Numbers
InverseBox(b, r, page) ==
    [ x      |-> NumMul(NumDiv(b.pdfX, NumOfInt(page.width)), NumOfInt(r.viewportWidth)),
      y      |-> NumSub(NumMul(NumDiv(NumSub(NumOfInt(page.height), b.pdfY),
                                      NumOfInt(page.height)),
                               NumOfInt(r.viewportHeight)),
                        NumMul(NumDiv(b.pdfHeight, NumOfInt(page.height)),
                               NumOfInt(r.viewportHeight))),
      width  |-> NumMul(NumDiv(b.pdfWidth, NumOfInt(page.width)), NumOfInt(r.viewportWidth)),
      height |-> NumMul(NumDiv(b.pdfHeight, NumOfInt(page.height)),
                        NumOfInt(r.viewportHeight)) ]

\* the rectangle of the request as Numbers
RectangleOf(r) ==
    [ x |-> NumOfInt(r.x), y |-> NumOfInt(r.y),
      width |-> NumOfInt(r.width), height |-> NumOfInt(r.height) ]

\* the Number a differs from the integer n by at most 16 units in the last place
\* of a value of size scale: |a - n| <= 16 * scale * 2^(-Precision)
NumClose(a, n, scale) ==
    IF a.e >= 0
    THEN Abs(a.m * Pow2(a.e) - n) * Pow2(Precision) <= 16 * scale
    ELSE Abs(a.m - n * Pow2(-a.e)) * Pow2(Precision) <= 16 * scale * Pow2(-a.e)

\* C16 as stated: the inverse formulas applied to the mapped box give back the
\* rectangle's x, y, width and height.
C16_RoundTripExact ==
    probe.mapped =>
        InverseBox(probe.box, probe.redaction, probe.page) = RectangleOf(probe.redaction)

\* the round trip of a mapped box is within tolerance of the rectangle
RoundTripClose(back, r) ==
    /\ NumClose(back.x, r.x, r.viewportWidth)
    /\ NumClose(back.width, r.width, r.viewportWidth)
    /\ NumClose(back.y, r.y, r.viewportHeight)
    /\ NumClose(back.height, r.height, r.viewportHeight)

\* C16 amended: the inverse formulas applied to the mapped box give back x, y,
\* width and height within floating-point tolerance: each value is within 16
\* units in the last place of the viewport dimension it is measured along.
C16_RoundTripWithinTolerance ==
    probe.mapped =>
        RoundTripClose(InverseBox(probe.box, probe.redaction, probe.page), probe.redaction)

\* a rectangle of the scale-1.5 viewport has been mapped and its round trip is
\* not the rectangle itself
C16_Witness ==
    /\ probe.mapped
    /\ 2 * probe.redaction.viewportWidth = 3 * probe.page.width
    /\ InverseBox(probe.box, probe.redaction, probe.page) # RectangleOf(probe.redaction)

\* C17: with anchor and box fixed, a containment test that held at one font size
\* holds at the next, not smaller, font size tested.
C17_ContainmentMonotone ==
    [][(probe.tested /\ probe.inside) => probe'.inside]_vars

\* an anchor outside at a smaller font size is inside at a larger one
C17_Witness ==
    /\ probe.fn = "isTextPositionInRedactedArea"
    /\ probe.tested
    /\ probe.outsideBefore
    /\ probe.inside

\* the fills of draws that sit at the box of f, oldest first
RECURSIVE FillsAt(_, _)
FillsAt(draws, f) ==
    IF draws = <<>> THEN <<>>
    ELSE (IF /\ Head(draws).x = f.x /\ Head(draws).y = f.y
             /\ Head(draws).width = f.width /\ Head(draws).height = f.height
          THEN <<Head(draws)>> ELSE <<>>) \o FillsAt(Tail(draws), f)

\* the topmost fill over the mapped box of r on its page
TopFill(page, r) ==
    LET fs == FillsAt(page.draws, FillOf(r, page, "black"))
    IN  fs[Len(fs)]

\* C18: however many times a rectangle on an existing page has been applied, once
\* or twice, the topmost fill over its mapped box is the same one: opaque black.
C18_OverlayIdempotent ==
    \A k \in Processed :
        PageExists(pdfDoc, redactions[k].pageIndex) =>
            LET page == pdfDoc.pages[redactions[k].pageIndex + 1]
            IN  TopFill(page, redactions[k]) = FillOf(redactions[k], page, "black")

\* the same rectangle has been applied twice to a page
C18_Witness ==
    /\ Len(threw) = 2
    /\ redactions[1] = redactions[2]
    /\ PageExists(pdfDoc, redactions[1].pageIndex)
    /\ Len(pdfDoc.pages[redactions[1].pageIndex + 1].draws) = 4

\* a request handled alone: the document and the count after the rectangles
\* after the first done, applyEnhancedTextRedaction taken as one step
RECURSIVE AloneLoop(_, _, _, _)
RECURSIVE AloneStep(_, _, _, _)
AloneStep(t, rl, done, total) ==
    AloneLoop(t.obj, rl, done + 1, IF t.threw THEN total ELSE total + t.ret)

AloneLoop(doc, rl, done, total) ==
    IF done >= Len(rl) THEN [doc |-> doc, objectsRemoved |-> total]
    ELSE AloneStep(applyEnhancedTextRedaction(doc, rl[done + 1]), rl, done, total)

\* the handler's document and count equal those of the request handled alone
SameAsAlone(doc, total, alone) ==
    /\ doc = alone.doc
    /\ total = alone.objectsRemoved

\* C19: whatever the other invocation does in between, an invocation that is
\* between two rectangles holds the document and the count that handling its
\* request alone gives after the same number of rectangles, and its success
\* response carries the document and the count that handling the request alone
\* gives.
C19_IndependentOfOtherRequest ==
    \A h \in DOMAIN reqs :
        /\ reqs[h].pc = "loop" =>
              SameAsAlone(reqs[h].pdfDoc, reqs[h].totalRemovedObjects,
                          AloneLoop(reqs[h].pdfBytes,
                                    SubSeq(reqs[h].redactions, 1, reqs[h].i), 0, 0))
        /\ reqs[h].res.success =>
              SameAsAlone(reqs[h].res.doc, reqs[h].res.objectsRemoved,
                          AloneLoop(reqs[h].pdfBytes, reqs[h].redactions, 0, 0))

\* two requests on different documents, each taking steps while the other was
\* under way, have both been answered with a redacted document
C19_Witness ==
    /\ DOMAIN reqs = Handlers
    /\ reqs[1].pdfBytes # reqs[2].pdfBytes
    /\ \A h \in Handlers :
          /\ reqs[h].res.success
          /\ reqs[h].overlapped
          /\ reqs[h].res.doc # reqs[h].pdfBytes

\* the first n lines leave a text object open: a BT among them with no ET after it
RECURSIVE InsideTextObject(_, _)
InsideTextObject(lines, n) ==
    IF n = 0 THEN FALSE
    ELSE IF lines[n].op = "BT" THEN TRUE
    ELSE IF lines[n].op = "ET" THEN FALSE
    ELSE InsideTextObject(lines, n - 1)

\* C20 as stated: after the scan of a line holding BT the redactor is in the text
\* object with textObjectLines = [that line] and skipCurrentTextObject false, and
\* after any line it is in the text object exactly when a BT has been scanned and
\* no ET since.
C20_TextObjectStateMachine ==
    scan.pos > 0 =>
        /\ scan.lines[scan.pos].op = "BT" =>
              /\ scan.st.textMode
              /\ scan.st.textObjectLines = <<Trim(scan.lines[scan.pos])>>
              /\ ~scan.st.skipCurrentTextObject
        /\ scan.st.textMode <=> InsideTextObject(scan.lines, scan.pos)

\* the loop body as the text-object rules read it: a BT or ET line, and any line
\* of an open text object, is handled by the text-object branches of the loop
RedactorLine(st, raw, box) ==
    IF Trim(raw).op \in {"BT", "ET"} \/ st.textMode
    THEN ScanLine([st EXCEPT !.textMode = TRUE], raw, box.x, box.y, box.width, box.height)
    ELSE ScanLine(st, raw, box.x, box.y, box.width, box.height)

\* the state those rules give after the first n lines of a stream
RECURSIVE Redactor(_, _, _)
Redactor(lines, n, box) ==
    IF n = 0 THEN ScanInit
    ELSE RedactorLine(Redactor(lines, n - 1, box), lines[n], box)

\* before is the state of the rules ahead of an ET line, st the state of the scan
\* after it
ETCloses(before, st, line) ==
    /\ st.textObjectLines = <<>>
    /\ IF before.skipCurrentTextObject
       THEN /\ st.modifiedLines = Append(before.modifiedLines, RemovalMarker)
            /\ st.removedCount = before.removedCount + 1
       ELSE /\ st.modifiedLines = before.modifiedLines \o before.textObjectLines \o <<line>>
            /\ st.removedCount = before.removedCount

\* C21 as stated: after the ET line of a text object, its pending lines and the
\* ET line have been emitted in order when skip was false; when skip was true
\* one marker line stands in place of the whole BT..ET object and the removed
\* count is one higher; the pending lines are cleared in both cases.
C21_ETClosesTextObject ==
    ( /\ scan.pos > 0
      /\ Trim(scan.lines[scan.pos]).op = "ET"
      /\ InsideTextObject(scan.lines, scan.pos - 1) )
    => ETCloses(Redactor(scan.lines, scan.pos - 1, scan.box), scan.st,
                Trim(scan.lines[scan.pos]))

\* the lines of a stream from its first line that holds 'ET' on, that line left out
RECURSIVE AfterFirstET(_)
AfterFirstET(lines) ==
    IF lines = <<>> THEN <<>>
    ELSE IF Includes(Head(lines), "ET") THEN Tail(lines)
    ELSE AfterFirstET(Tail(lines))

HasET(lines) == \E k \in 1 .. Len(lines) : Includes(lines[k], "ET")

\* out is inp with some of its text objects (a line with 'BT' up to the next line
\* with 'ET') replaced by one marker line each, every other line kept once, in order
RECURSIVE Conserves(_, _)
Conserves(inp, out) ==
    IF inp = <<>> THEN out = <<>>
    ELSE IF out = <<>> THEN FALSE
    ELSE IF Head(out) = AreaMarker
    THEN /\ Includes(Head(inp), "BT")
         /\ HasET(inp)
         /\ Conserves(AfterFirstET(inp), Tail(out))
    ELSE /\ Head(out) = Trim(Head(inp))
         /\ Conserves(Tail(inp), Tail(out))

\* C22 as stated: removeTextInArea returns every input line that is not part of a
\* text object replaced by the marker exactly once and in input order, also the
\* lines of a text object left open at the end of the stream, a line holding both
\* BT and ET, and the lines of a text object ahead of a line that contains 'BT'.
C22_LinesConserved ==
    (probe.fn = "removeTextInArea" /\ probe.run = 1 /\ probe.returned)
        => Conserves(probe.input, probe.result)

InPaddedRectangle(ax, ay, fontSize, b) ==
    LET p10 == IF 5 * fontSize >= 50 THEN 5 * fontSize ELSE 50
    IN  /\ 10 * b.x - p10 <= 10 * ax
        /\ 10 * ax <= 10 * b.x + 10 * b.width + p10
        /\ 10 * b.y - p10 <= 10 * ay
        /\ 10 * ay <= 10 * b.y + 10 * b.height + 12 * fontSize + p10

ExampleBox == [x |-> 100, y |-> 730, width |-> 80, height |-> 20]

\* C24: isTextPositionInRedactedArea is true exactly when the anchor lies in
\* [rx - p, rx + rw + p] x [ry - p, ry + rh + 1.2 * fontSize + p], p = max(0.5 *
\* fontSize, 5), bounds included; for font size 12 and the box (100, 730, 80, 20)
\* that is x in [94, 186] and y in [724, 770.4], so (100, 700) is outside.
C24_ContainmentDefinition ==
    (probe.fn = "isTextPositionInRedactedArea" /\ probe.tested) =>
        /\ probe.inside <=> InPaddedRectangle(probe.textX, probe.textY, probe.fontSize, probe.box)
        /\ (probe.fontSize = 12 /\ probe.box = ExampleBox) =>
              /\ probe.inside <=> ( /\ 94 <= probe.textX /\ probe.textX <= 186
                                    /\ 724 <= probe.textY /\ 10 * probe.textY <= 7704 )
              /\ (probe.textX = 100 /\ probe.textY = 700) => ~probe.inside

\* the test has answered yes for an anchor on the lower limit of x and the upper
\* limit of y (95 and 767 for font size 10 and the example box)
C24_Witness ==
    /\ probe.fn = "isTextPositionInRedactedArea"
    /\ probe.tested
    /\ probe.box = ExampleBox
    /\ probe.fontSize = 10
    /\ probe.textX = 95
    /\ probe.textY = 767
    /\ probe.inside

\* the step just taken scanned a line of an open text object
ScannedInsideTextObject ==
    /\ scan'.pos = scan.pos + 1
    /\ InsideTextObject(scan.lines, scan.pos)
    /\ Trim(scan.lines[scan'.pos]).op \notin {"BT", "ET"}

\* the containment test at the anchor of matrix m, at the font size and box of
\* the scan state st
AnchorInside(m, st, box) ==
    isTextPositionInRedactedArea(m[5], m[6], st.currentFontSize,
                                 box.x, box.y, box.width, box.height)

\* line is a positioning line with its operands: m2 is m updated by it
Positioned(line, m, m2) ==
    /\ (line.op = "Tm" /\ Len(line.args) = 6) => m2 = line.args
    /\ (line.op \in {"Td", "TD"} /\ Len(line.args) = 2) =>
          m2 = [m EXCEPT ![5] = @ + line.args[1], ![6] = @ + line.args[2]]
    /\ (line.op = "TL" /\ Len(line.args) = 1) =>
          m2 = [m EXCEPT ![6] = @ - line.args[1]]

\* C25 as stated: inside a text object a Tm line replaces the matrix by its six
\* operands, a Td or TD line adds its operands to matrix[4] and matrix[5], a TL
\* line subtracts its operand from matrix[5], and the containment test at the
\* updated anchor sets skip when it holds.
C25_PositioningUpdatesMatrix ==
    [][ (ScannedInsideTextObject /\ Trim(scan.lines[scan'.pos]).op \in {"Tm", "Td", "TD", "TL"})
        => /\ Positioned(Trim(scan.lines[scan'.pos]), scan.st.currentMatrix,
                         scan'.st.currentMatrix)
           /\ AnchorInside(scan'.st.currentMatrix, scan'.st, scan.box)
                 => scan'.st.skipCurrentTextObject ]_vars

\* C26 as stated: a show-text line inside a text object tests containment at the
\* current anchor (setting skip when it holds) and leaves matrix and font size as
\* they are; a Tf line sets the font size to its operand and changes nothing else.
C26_ShowTextAndFontSize ==
    [][ ScannedInsideTextObject =>
           /\ Trim(scan.lines[scan'.pos]).op \in {"Tj", "TJ", "'", "\""} =>
                 /\ scan'.st.currentMatrix = scan.st.currentMatrix
                 /\ scan'.st.currentFontSize = scan.st.currentFontSize
                 /\ AnchorInside(scan.st.currentMatrix, scan.st, scan.box)
                       => scan'.st.skipCurrentTextObject
           /\ (Trim(scan.lines[scan'.pos]).op = "Tf" /\ Len(scan.lines[scan'.pos].args) = 1) =>
                 /\ scan'.st.currentFontSize = scan.lines[scan'.pos].args[1]
                 /\ scan'.st.currentMatrix = scan.st.currentMatrix
                 /\ scan'.st.skipCurrentTextObject = scan.st.skipCurrentTextObject ]_vars

Identity == <<1, 0, 0, 1, 0, 0>>

\* the composition of the current matrix M with the operand matrix N, entries
\* a, b, c, d, e, f at positions 1 .. 6
Compose(M, N) ==
    << M[1] * N[1] + M[3] * N[2],  M[2] * N[1] + M[4] * N[2],
       M[1] * N[3] + M[3] * N[4],  M[2] * N[3] + M[4] * N[4],
       M[1] * N[5] + M[3] * N[6] + M[5],  M[2] * N[5] + M[4] * N[6] + M[6] >>

\* line scanned with matrix M gives matrix M2
CmComposes(line, M, M2) ==
    IF line.op = "cm" /\ Len(line.args) = 6
    THEN /\ M2 = Compose(M, line.args)
         /\ M = Identity => M2 = line.args
         /\ line.args = Identity => M2 = M
    ELSE M2 = M

\* C27: outside a text object a line with a six-operand cm replaces the current
\* matrix M by its composition with the operand matrix N (entries as in
\* multiplyMatrices, the identity neutral on either side); any other line leaves
\* the matrix unchanged.
C27_CmComposesMatrix ==
    [][ (scan'.pos = scan.pos + 1 /\ ~InsideTextObject(scan.lines, scan.pos))
        => CmComposes(Trim(scan.lines[scan'.pos]), scan.st.currentMatrix,
                      scan'.st.currentMatrix) ]_vars

\* a translation by (10, 10) followed by a rotation with offset (5, 0) has been
\* scanned: the offset is added after the translation
C27_Witness ==
    /\ scan.pos = 2
    /\ scan.lines[1] = L("cm", <<1, 0, 0, 1, 10, 10>>)
    /\ scan.lines[2] = L("cm", <<0, 1, -1, 0, 5, 0>>)
    /\ scan.st.currentMatrix = <<0, 1, -1, 0, 15, 10>>

\* C28: every scan starts from the identity matrix, outside a text object, with no
\* pending lines, skip false and font size 12, whatever the scan of an earlier
\* stream left; what it returns depends on the lines of its stream and the box
\* only; the streams of a page are scanned one after the other in array order.
C28_ScanStartsFresh ==
    /\ scan.k \in 1 .. Len(scan.contents)
    /\ scan.lines = scan.contents[scan.k]
    /\ scan.pos = 0 =>
          /\ scan.st.currentMatrix = <<1, 0, 0, 1, 0, 0>>
          /\ ~scan.st.textMode
          /\ scan.st.textObjectLines = <<>>
          /\ ~scan.st.skipCurrentTextObject
          /\ scan.st.currentFontSize = 12
          /\ scan.st.removedCount = 0
          /\ scan.st.modifiedLines = <<>>
    /\ scan.returned =>
          scan.result = removeTextContentInArea(scan.lines, scan.box.x, scan.box.y,
                                                scan.box.width, scan.box.height)

\* the scan of the second stream of a page has returned, after a first stream
\* whose cm lines left a matrix other than the identity
C28_Witness ==
    /\ scan.k = 2
    /\ scan.returned
    /\ scan.contents[1][1] = L("cm", <<1, 0, 0, 1, 10, 10>>)
    /\ scan.st.currentMatrix = <<1, 0, 0, 1, 0, 0>>
    /\ scan.result.modifiedContent = TrimAll(scan.contents[2])

RECURSIVE CountAreaMarkers(_)
CountAreaMarkers(lines) ==
    IF lines = <<>> THEN 0
    ELSE (IF Head(lines) = AreaMarker THEN 1 ELSE 0) + CountAreaMarkers(Tail(lines))

\* C29 as stated: removeTextInArea run on its own output with the same box
\* returns that output unchanged; the second run replaces no text object that the
\* first run kept.
C29_ExcisionIdempotent ==
    (probe.fn = "removeTextInArea" /\ probe.run = 2 /\ probe.returned) =>
        /\ probe.result = probe.lines
        /\ CountAreaMarkers(probe.result) = CountAreaMarkers(probe.lines)

\* r is what the scan returns for streamObj, out what the rewriter returns and
\* leaves: a change of the stream comes with a count of at least 1, and a scan
\* that removed nothing leaves the stream as it was
RewrittenOnlyIfRemoved(streamObj, r, out) ==
    /\ out.obj # streamObj => out.ret >= 1
    /\ r.removedCount = 0 => out.obj = streamObj

\* C30 as stated: processAndModifyContentStream changes a stream's content or
\* Length only when it returns a removed count of at least 1, and leaves the
\* stream untouched when the scan skipped no text object (stated for the streams
\* of the page of the next rectangle, as the rectangles before it left them).
C30_RewriteOnlyIfRemoved ==
    (Loaded /\ pc = "loop" /\ MoreRedactions
        /\ PageExists(pdfDoc, redactions[i + 1].pageIndex)) =>
        LET page == pdfDoc.pages[redactions[i + 1].pageIndex + 1]
            b == MapBox(redactions[i + 1], page)
        IN  \A s \in 1 .. Len(page.Contents) :
                RewrittenOnlyIfRemoved(page.Contents[s],
                    removeTextContentInArea(page.Contents[s].lines,
                                            b.pdfX, b.pdfY, b.pdfWidth, b.pdfHeight),
                    processAndModifyContentStream(page.Contents[s],
                                            b.pdfX, b.pdfY, b.pdfWidth, b.pdfHeight))

\* t is what applyEnhancedTextRedaction returns and leaves for the document doc:
\* the count is the number of marker lines the call added to the document
CountIsMarkersAdded(doc, t) ==
    ~t.threw => t.ret = CountMarkers(t.obj.pages) - CountMarkers(doc.pages)

CarriedOver(line, st, M2) ==
    /\ (Includes(line, "BT") \/ Includes(line, "ET")) => M2 = st.currentMatrix
    /\ ( /\ ~Includes(line, "BT") /\ ~Includes(line, "ET")
         /\ st.textMode
         /\ Includes(line, "Td") \/ Includes(line, "TD")
         /\ Len(line.args) = 2 )
       => M2 = [st.currentMatrix EXCEPT ![5] = @ + line.args[1],
                                        ![6] = @ + line.args[2]]

\* C32: the matrix is not reset at BT or ET; the matrix a text object leaves is the
\* one the next text object starts from, so a Td / TD move of a later text object
\* is relative to where the text object before it ended.
C32_MatrixNotResetAtBTET ==
    [][ (probe.fn = "removeTextInArea" /\ probe'.pos = probe.pos + 1)
        => CarriedOver(Trim(probe.lines[probe'.pos]), probe.st,
                       probe'.st.currentMatrix) ]_vars

\* the Td of the second of two text objects, each moving by (50, 50), has been
\* scanned: the anchor is (100, 100)
C32_Witness ==
    /\ probe.fn = "removeTextInArea"
    /\ probe.run = 1
    /\ probe.lines = TwoTextObjects
    /\ probe.pos = 6
    /\ probe.st.currentMatrix = <<1, 0, 0, 1, 100, 100>>

\* C33 as stated: every recorded redaction's pageIndex is the index of the page
\* shown on the canvas on which the rectangle was drawn, whatever the order in
\* which page changes and pending renderPage calls complete.
C33_PageIndexIsDrawnPage ==
    probe.fn = "ui" =>
        \A k \in 1 .. Len(probe.redactions) :
            probe.redactions[k].pageIndex = probe.redactions[k].canvasPage - 1

\* C34: a POST /redact request gets exactly one response on every path: never a
\* second one, and the handler does not come to its end, or to a halt, without
\* one.
C34_ExactlyOneResponse ==
    /\ reqs.sent <= 1
    /\ reqs.pc = "done" => reqs.sent = 1
    /\ reqs.pc # "done" => ENABLED RespondNext

\* the handler has ended through the outer catch: a null element in the
\* redactions array after a rectangle whose page index is out of range
C34_Witness ==
    /\ reqs.pc = "done"
    /\ reqs.status = 500
    /\ reqs.saves
    /\ reqs.i = 1
    /\ reqs.list.items = <<"badPage", "null">>
    /\ reqs.sent = 1

\* C35: the scan goes through the lines of the stream one by one in order (after
\* pos iterations the first pos lines have been handled, each once), it cannot go
\* on past the last line, it always has a next step until it has returned, and it
\* returns after the last line.
C35_ScanVisitsEachLineOnce ==
    /\ scan.pos \in 0 .. Len(scan.lines)
    /\ scan.st.modifiedLines = TrimAll(SubSeq(scan.lines, 1, scan.pos))
    /\ ~scan.returned => ENABLED (ScanStep \/ ScanReturn)
    /\ scan.returned =>
          /\ scan.pos = Len(scan.lines)
          /\ Len(scan.result.modifiedContent) = Len(scan.lines)

\* the scan of a stream of three lines has returned
C35_Witness ==
    /\ scan.returned
    /\ scan.k = 1
    /\ Len(scan.lines) = 3
    /\ scan.pos = 3
    /\ scan.result.modifiedContent = TrimAll(scan.lines)

\* anchors around the edges of the degenerate boxes
DegenerateAnchorXs == {94, 95, 100, 105, 106, 140, 174, 175, 185, 186}

DegenerateAnchorYs == {724, 725, 730, 735, 740, 745, 757, 758, 762, 763}

\* the fills of color c at the mapped box of the rectangle r on the page pg
MappedFills(pg, r, c) ==
    { d \in 1 .. Len(pg.draws) :
         /\ pg.draws[d].color = c
         /\ pg.draws[d].x * r.viewportWidth = r.x * pg.width
         /\ pg.draws[d].y * r.viewportHeight
               = pg.height * r.viewportHeight - (r.y + r.height) * pg.height
         /\ pg.draws[d].width * r.viewportWidth = r.width * pg.width
         /\ pg.draws[d].height * r.viewportHeight = r.height * pg.height }

\* the box of a fill is non-positive and the containment test on it is the
\* padded-range test
NonPositiveBox(d) ==
    /\ d.width <= 0 \/ d.height <= 0
    /\ \A tx \in DegenerateAnchorXs, ty \in DegenerateAnchorYs :
          isTextPositionInRedactedArea(tx, ty, 10, d.x, d.y, d.width, d.height)
             <=> InPaddedRectangle(tx, ty, 10, d)

\* the call for the k-th rectangle did not throw and painted white then black
\* at the mapped box
DegenerateProceeds(k) ==
    LET r  == redactions[k]
        pg == pdfDoc.pages[r.pageIndex + 1]
    IN  /\ ~threw[k]
        /\ MappedFills(pg, r, "white") # {}
        /\ MappedFills(pg, r, "black") # {}
        /\ \A d \in MappedFills(pg, r, "white") :
              /\ d + 1 \in MappedFills(pg, r, "black")
              /\ NonPositiveBox(pg.draws[d])

====
